---- MODULE Spec2Model ----
(***************************************************************************)
(* The transfer job of src/molly-macro.py as a state machine: main() is    *)
(* followed from argument parsing to process exit, one action per block of *)
(* main() or per loop iteration of the functions it calls.  The automation *)
(* utility (xdotool), the clipboard, the payload file, the configuration   *)
(* file and the process environment are the environment: their contents    *)
(* are drawn in Init, the exit status of every utility call is drawn with  *)
(* \E where the call is made.                                              *)
(***************************************************************************)
EXTENDS Integers, Sequences, FiniteSets, TLC

\* ------------------------------------------------------------------ bounds
\* Longest payload (clipboard or file content) and longest step value drawn.
MaxLen == 2
\* Most window ids one xdotool search call lists.
MaxWindows == 2

\* ------------------------------------------------------- program constants
\* for attempt in range(10)
MaxAttempts == 10
\* chars_sent % 100 == 0
ProgressEvery == 100
\* print("PROGRESS:100.00"), in hundredths
Final100 == 10000

\* ------------------------------------------------------------- value sets
NL == "\n"
\* The grave accent (U+0060), which a TLA+ string cannot hold.
Grave == "U+0060"
\* The characters payloads are made of: one the key table leaves alone, one
\* reserved punctuation character and the newline.
Chars == {"h", "#", NL}

SeqsUpTo(S, n) == UNION {[1..k -> S] : k \in 0..n}
Payloads == SeqsUpTo(Chars, MaxLen)

\* A value of a timing key as the configuration file or the environment
\* holds it: os.getenv gives None for an undefined variable.
None == "None"
FloatOf == [s \in {"1", "2"} |-> IF s = "1" THEN 1 ELSE 2]
CanFloat(v) == v \in DOMAIN FloatOf

EnvKeys == {"WINDOW_TITLE", "DELAY_BETWEEN_KEYS", "DELAY_BETWEEN_COMMANDS",
            "DELAY_BETWEEN_APPLICATIONS", "APP_LOAD_TIME", "CHUNK_SIZE",
            "DELAY_BETWEEN_CHUNKS"}
NumKeys == EnvKeys \ {"WINDOW_TITLE"}

\* dict.get(key, default)
Get(d, k, default) == IF k \in DOMAIN d THEN d[k] ELSE default

\* ------------------------------------------------------------- Key Mapper
mapping == [c \in {" ", "!", "\"", "#", "$", "%", "&", "'", "(", ")", "*", "+",
                   ",", "-", ".", "/", "\\", ":", ";", "<", "=", ">", "?", "@",
                   "[", "]", "^", "_", Grave, "{", "|", "}", "~", NL} |->
    CASE c = " " -> "space" [] c = "!" -> "exclam" [] c = "\"" -> "quotedbl"
      [] c = "#" -> "numbersign" [] c = "$" -> "dollar" [] c = "%" -> "percent"
      [] c = "&" -> "ampersand" [] c = "'" -> "apostrophe"
      [] c = "(" -> "parenleft" [] c = ")" -> "parenright"
      [] c = "*" -> "asterisk" [] c = "+" -> "plus" [] c = "," -> "comma"
      [] c = "-" -> "minus" [] c = "." -> "period" [] c = "/" -> "slash"
      [] c = "\\" -> "backslash" [] c = ":" -> "colon" [] c = ";" -> "semicolon"
      [] c = "<" -> "less" [] c = "=" -> "equal" [] c = ">" -> "greater"
      [] c = "?" -> "question" [] c = "@" -> "at" [] c = "[" -> "bracketleft"
      [] c = "]" -> "bracketright" [] c = "^" -> "asciicircum"
      [] c = "_" -> "underscore" [] c = Grave -> "grave" [] c = "{" -> "braceleft"
      [] c = "|" -> "bar" [] c = "}" -> "braceright" [] c = "~" -> "asciitilde"
      [] c = NL -> "Return"]

\* A table lookup without a default: mapping[char], which has no value for
\* a character outside the table.
convert_to_xdotool_key_Lookup(char) == Get(mapping, char, "KeyError")

\* Line 146: mapping.get(char, char).
convert_to_xdotool_key(char) == Get(mapping, char, char)

\* ------------------------------------------------------------ the inputs
EmptyDict == [k \in {} |-> None]
Opt(k, v, present) == IF present THEN k :> v ELSE EmptyDict

\* An open step {action, value}; a value is a sequence of symbols (the
\* characters of a text to type, or one key name).
Step(a, v) == [action |-> a, value |-> v]
StepKinds == {Step("key", <<"ctrl+n">>), Step("raise_window", <<>>),
              Step("launch_window", <<>>), Step("click", <<>>),
              Step("type", <<>>), Step("type", <<"a", "b", "c">>)}
\* Longest list of open steps drawn.
MaxSteps == 2
StepLists == SeqsUpTo(StepKinds, MaxSteps)

TimingKeys == [k \in EnvKeys |-> IF k = "WINDOW_TITLE" THEN "Title" ELSE "1"]
Modes == {"text", "spreadsheet", "image", "code", "bogus", ""}

\* One application configuration of the file.  A key left out of the
\* record is a key the JSON object does not have.
Cfg(type, launch, match, steps, nopay, mode, chunk, timing) ==
    Opt("type", type, type # "") @@ Opt("launch_command", "app", launch)
    @@ Opt("window_match", "Title", match) @@ Opt("open_steps", steps.v, steps.has)
    @@ Opt("no_payload", nopay.v, nopay.has) @@ Opt("mode", mode, mode # "")
    @@ ("CHUNK_SIZE" :> chunk) @@ (IF timing THEN TimingKeys ELSE EmptyDict)
Has(v) == [has |-> TRUE, v |-> v]
Hasnt(v) == [has |-> FALSE, v |-> v]
OneKey == Has(<<Step("key", <<"ctrl+n">>)>>)
BaseCfg == Cfg("remote", FALSE, TRUE, OneKey, Has(FALSE), "text", "1", TRUE)

\* The process environment: the seven variables load_config falls back to.
Envs == {[k \in EnvKeys |-> None],
         [k \in EnvKeys |-> IF k = "WINDOW_TITLE" THEN "Title" ELSE "1"],
         [k \in EnvKeys |-> IF k = "WINDOW_TITLE" THEN None ELSE "1"],
         [k \in EnvKeys |-> IF k = "APP_LOAD_TIME" THEN None ELSE "1"],
         [k \in EnvKeys |-> IF k = "CHUNK_SIZE" THEN "abc" ELSE "1"]}
NoEnv == [k \in EnvKeys |-> None]

ConfigFile(state, cfg) == [state |-> state, app |-> cfg]
File(readable, content) == [readable |-> readable, content |-> content]
NoFile == File(FALSE, <<>>)
\* argparse, lines 407-419: the mode flags given (-s, -t, -i, -e), -c, the
\* path, -w and --config_name.
Args(c, path, w, name) ==
    [c |-> c, path_to_file |-> path, w |-> w, config_name |-> name, flags |-> {}]
ModeFlags == {"-s", "-t", "-i", "-e"}
WithFlags(a, flags) == [a EXCEPT !.flags = flags]

Job(a, cf, env, clip, f) ==
    [args |-> a, config_file |-> cf, environ |-> env, clipboard |-> clip, file |-> f]

\* The payload sources: -c with a clipboard, a path with a file, neither.
\* A source the run never reads is held at one value.
Sources == {[c |-> TRUE, path |-> "", clip |-> p, file |-> NoFile] : p \in Payloads}
    \cup {[c |-> FALSE, path |-> "in.txt", clip |-> <<>>, file |-> File(TRUE, p)] : p \in Payloads}
    \cup {[c |-> FALSE, path |-> "in.txt", clip |-> <<>>, file |-> NoFile],
          [c |-> FALSE, path |-> "", clip |-> <<>>, file |-> NoFile],
          [c |-> TRUE, path |-> "in.txt", clip |-> <<"h">>, file |-> File(TRUE, <<"#">>)]}
ClipH == [c |-> TRUE, path |-> "", clip |-> <<"h">>, file |-> NoFile]
JobOf(src, w, name, cf, env) ==
    Job(Args(src.c, src.path, w, name), cf, env, src.clip, src.file)

\* Configuration loading: the file's state, the name given, the timing keys
\* the configuration has and the environment it falls back to.
ConfigJobs ==
    {JobOf(ClipH, "0x1", name, ConfigFile(st, BaseCfg), env) :
        name \in {"", "app", "other"}, st \in {"unreadable", "malformed", "no_applications"},
        env \in {NoEnv}}
    \cup {JobOf(ClipH, "0x1", name, ConfigFile("ok", Cfg("remote", FALSE, TRUE, OneKey, Has(FALSE), "text", "1", timing)), env) :
        name \in {"", "app", "other"}, timing \in BOOLEAN, env \in Envs}
\* Window resolution: the type, the launch command, the match pattern, -w.
WindowJobs ==
    {JobOf(ClipH, w, "app", ConfigFile("ok", Cfg(type, launch, match, OneKey, Has(nopay), "text", "1", TRUE)), NoEnv) :
        w \in {"", "0x1"}, type \in {"local", "remote", ""}, launch \in BOOLEAN,
        match \in BOOLEAN, nopay \in BOOLEAN}
\* Open steps: every list of steps, both chunk sizes, with and without payload.
StepJobs ==
    {JobOf(ClipH, "0x1", "app", ConfigFile("ok", Cfg("remote", FALSE, TRUE, steps, nopay, "text", chunk, TRUE)), NoEnv) :
        steps \in {Has(l) : l \in StepLists} \cup {Hasnt(<<>>)},
        nopay \in {Has(TRUE), Has(FALSE), Hasnt(FALSE)}, chunk \in {"1", "2"}}
\* Payload: every mode, with and without no_payload, every source.
PayloadJobs ==
    {JobOf(src, "0x1", "app", ConfigFile("ok", Cfg("remote", FALSE, TRUE, steps, Has(nopay), mode, "1", TRUE)), NoEnv) :
        src \in Sources, steps \in {Has(<<>>), OneKey}, nopay \in BOOLEAN, mode \in Modes}
\* Mode flags: every set of flags, against a text and an image configuration.
FlagJobs ==
    {[JobOf(ClipH, "0x1", "app", ConfigFile("ok", Cfg("remote", FALSE, TRUE, Has(<<>>), Has(FALSE), mode, "1", TRUE)), NoEnv)
        EXCEPT !.args = WithFlags(@, flags)] :
        flags \in (SUBSET ModeFlags) \ {{}}, mode \in {"text", "image"}}
Jobs == ConfigJobs \cup WindowJobs \cup StepJobs \cup PayloadJobs \cup FlagJobs

\* ------------------------------------------------------------- the state
VARIABLES
    args, config_file, environ, clipboard, file,   \* the job's inputs
    script,             \* the script the process runs
    pc,                 \* where main() is
    USE_CLIPBOARD, clipboard_content, file_path, app_config, WINDOW_ID,
    spawned,            \* launch_application started the application
    attempt,            \* launch_application: attempts made
    step_i, chunk_i,    \* execute_steps / send_command_to_window loop indices
    text, chars_sent,   \* send_text_to_window
    send_result,        \* what send_text_to_window returned: "none", "True", "False"
    stdout,             \* the PROGRESS values written, in hundredths
    exit_status,        \* -1 while the process runs
    cmds,               \* every type/key/windowraise command dispatched, in order
    trace,              \* the utility calls of the last action, in order
    touched,            \* some window command was issued (activate, map, focus, raise, key, type)
    search_calls,       \* xdotool search calls made
    reads,              \* reads of the payload source: where main() was
    \* DataTransferGUI (src/data_transfer_gui.py)
    run_button,         \* TRUE: state NORMAL, FALSE: state DISABLED
    stop_button,
    progress_bar,       \* the displayed value, in hundredths
    should_update_progress,
    transfer_completed,
    process,            \* self.process: 0 for None, else the run it was created for
    progress_queue,     \* self.progress_queue
    after_calls,        \* callbacks posted with master.after(0, ...), oldest first
    popups,             \* open message boxes, newest last
    timers,             \* update_progress callbacks pending on the 100 ms timer
    proc,               \* the job process of each run
    out_pipe,           \* lines written to the job's stdout and not yet read
    runner,             \* position of each run_process thread
    reader,             \* position of each handle_output thread
    handled,            \* per run, what its stdout thread has handled: the lines' tags
    decided             \* the callback run_process posted after the job ended

shell == <<run_button, stop_button, progress_bar,
           should_update_progress, transfer_completed, process, progress_queue,
           after_calls, popups, timers, proc, out_pipe, runner, reader, handled,
           decided>>

job_vars == <<args, config_file, environ, clipboard, file, script, pc, USE_CLIPBOARD,
          clipboard_content, file_path, app_config, WINDOW_ID, spawned, attempt,
          step_i, chunk_i, text, chars_sent, send_result, stdout, exit_status,
          cmds, trace, touched, search_calls, reads>>

vars == <<job_vars, shell>>

\* ---- DataTransferGUI: bounds and initial state (src/data_transfer_gui.py) ----

\* Runs started in one session of the GUI, and lines its jobs write in all.
MaxRuns == 2
MaxLines == 2

Runs == 1..MaxRuns
Pipes == {"stdout", "stderr"}

\* DataTransferGUI.__init__: no process, Run enabled, Stop disabled, an empty
\* queue, no polling.  transfer_completed is first assigned by handle_output
\* and never read before that.
ShellIdle ==
    /\ run_button = TRUE
    /\ stop_button = FALSE
    /\ progress_bar = 0
    /\ should_update_progress = FALSE
    /\ transfer_completed = FALSE
    /\ process = 0
    /\ progress_queue = <<>>
    /\ after_calls = <<>>
    /\ popups = <<>>
    /\ timers = 0
    /\ proc = [r \in Runs |-> [state |-> "none", returncode |-> -1, written |-> 0]]
    /\ out_pipe = [r \in Runs |-> <<>>]
    /\ runner = [r \in Runs |-> "none"]
    /\ reader = [r \in Runs |-> [p \in Pipes |-> "none"]]
    /\ handled = [r \in Runs |-> <<>>]
    /\ decided = [r \in Runs |-> "none"]

inputs == <<args, config_file, environ, clipboard, file, script>>

Init ==
    /\ \E j \in Jobs :
        /\ args = j.args
        /\ config_file = j.config_file
        /\ environ = j.environ
        /\ clipboard = j.clipboard
        /\ file = j.file
    /\ script = "molly-macro.py"
    /\ pc = "start"
    /\ USE_CLIPBOARD = FALSE
    /\ clipboard_content = <<>>
    /\ file_path = ""
    /\ app_config = EmptyDict
    /\ WINDOW_ID = ""
    /\ spawned = FALSE
    /\ attempt = 0
    /\ step_i = 1
    /\ chunk_i = 0
    /\ text = <<>>
    /\ chars_sent = 0
    /\ send_result = "none"
    /\ stdout = <<>>
    /\ exit_status = -1
    /\ cmds = <<>>
    /\ trace = <<>>
    /\ touched = FALSE
    /\ search_calls = 0
    /\ reads = <<>>
    /\ ShellIdle

\* ------------------------------------------------- the automation utility
RC == {0, 1}
\* One call of the utility (or one sleep): the command, its argument, its
\* exit status and what the caller does with that status: "check" (run with
\* check=True), "returncode" (read by the caller) or "ignored".
Cmd(c, a, rc, use) == [cmd |-> c, arg |-> a, rc |-> rc, use |-> use]
Sleep(d) == Cmd("sleep", <<d>>, 0, "ignored")
\* The log of a sequence of calls: an exit status the program never reads
\* is not kept.
Observed(tr) ==
    [i \in 1..Len(tr) |-> IF tr[i].use = "ignored" THEN [tr[i] EXCEPT !.rc = 0] ELSE tr[i]]
WindowCmds == {"windowactivate", "windowmap", "windowfocus", "windowraise", "key", "type"}
Touches(tr) == \E i \in 1..Len(tr) : tr[i].cmd \in WindowCmds

\* The exit statuses one activate_window call can meet.  The map and the
\* second windowactivate only run after a failed first one.
ActRcs == {r \in [act1 : RC, map : RC, act2 : RC, focus : RC, raise : RC] :
              r.act1 = 0 => (r.map = 0 /\ r.act2 = 0)}

\* An activation that maps the window and activates again whatever the first
\* windowactivate reported.
activate_window_AlwaysRetries(window_id, r) ==
    [ok |-> TRUE,
     trace |-> <<Cmd("windowactivate", <<window_id>>, r.act1, "returncode"),
                 Cmd("windowmap", <<window_id>>, r.map, "ignored"), Sleep("0.5"),
                 Cmd("windowactivate", <<window_id>>, r.act2, "ignored"),
                 Cmd("windowfocus", <<window_id>>, r.focus, "ignored"),
                 Cmd("windowraise", <<window_id>>, r.raise, "ignored")>>]

\* An activation that reports failure when both windowactivate calls exited
\* non-zero.
activate_window_ChecksStatus(window_id, r) ==
    [ok |-> r.act1 = 0 \/ r.act2 = 0,
     trace |-> <<Cmd("windowactivate", <<window_id>>, r.act1, "returncode")>>
        \o (IF r.act1 # 0
            THEN <<Cmd("windowmap", <<window_id>>, r.map, "ignored"), Sleep("0.5"),
                   Cmd("windowactivate", <<window_id>>, r.act2, "returncode")>>
            ELSE <<>>)
        \o <<Cmd("windowfocus", <<window_id>>, r.focus, "ignored"),
             Cmd("windowraise", <<window_id>>, r.raise, "ignored")>>]

\* An activation that leaves out the windowfocus once the window is active.
activate_window_SkipsFocus(window_id, r) ==
    [ok |-> TRUE,
     trace |-> <<Cmd("windowactivate", <<window_id>>, r.act1, "returncode")>>
        \o (IF r.act1 # 0
            THEN <<Cmd("windowmap", <<window_id>>, r.map, "ignored"), Sleep("0.5"),
                   Cmd("windowactivate", <<window_id>>, r.act2, "ignored"),
                   Cmd("windowfocus", <<window_id>>, r.focus, "ignored")>>
            ELSE <<>>)
        \o <<Cmd("windowraise", <<window_id>>, r.raise, "ignored")>>]

\* activate_window: every call is made with check=False, so the function
\* returns True whatever the exit statuses are.
activate_window(window_id, r) ==
    [ok |-> TRUE,
     trace |-> <<Cmd("windowactivate", <<window_id>>, r.act1, "returncode")>>
        \o (IF r.act1 # 0
            THEN <<Cmd("windowmap", <<window_id>>, r.map, "ignored"), Sleep("0.5"),
                   Cmd("windowactivate", <<window_id>>, r.act2, "ignored")>>
            ELSE <<>>)
        \o <<Cmd("windowfocus", <<window_id>>, r.focus, "ignored"),
             Cmd("windowraise", <<window_id>>, r.raise, "ignored")>>]

\* A command builder that turns an unknown action into a key command.
generate_xdotool_command_AnyKey(action) ==
    CASE action = "type" -> "type"
      [] action = "raise_window" -> "windowraise"
      [] OTHER -> "key"

\* generate_xdotool_command: the utility's sub-command for an action, or
\* "ValueError" for an unsupported one.
generate_xdotool_command(action) ==
    CASE action = "type" -> "type"
      [] action = "key" -> "key"
      [] action = "raise_window" -> "windowraise"
      [] OTHER -> "ValueError"

\* A dispatch that runs the command without activating the window.
RunCommand_NoActivation(window_id, action, value, r, rc) ==
    [ok |-> rc = 0, ran |-> TRUE,
     trace |-> <<Cmd(generate_xdotool_command(action), value, rc, "check")>>]

\* A dispatch that reports success whatever the command's exit status is.
RunCommand_IgnoresStatus(window_id, action, value, r, rc) ==
    [ok |-> TRUE, ran |-> TRUE,
     trace |-> activate_window(window_id, r).trace
               \o <<Cmd(generate_xdotool_command(action), value, rc, "check")>>]

\* send_command_to_window, one command: activate the window, then run the
\* command with check=True.  ok is FALSE when activation reports failure
\* (the command is then not run) or the command exits non-zero.
RunCommand(window_id, action, value, r, rc) ==
    LET act == activate_window(window_id, r)
    IN  IF ~act.ok
        THEN [ok |-> FALSE, ran |-> FALSE, trace |-> act.trace]
        ELSE [ok |-> rc = 0, ran |-> TRUE,
              trace |-> act.trace \o <<Cmd(generate_xdotool_command(action), value, rc, "check")>>]

Dispatched(window_id, action, value, rc, phase) ==
    [window |-> window_id, action |-> action, value |-> value, rc |-> rc, phase |-> phase]

\* A progress value that counts the characters still to send.
Progress_Remaining(sent, total) == ((total - sent) * 10000) \div total

\* progress = (chars_sent / total_length) * 100, printed with two decimals:
\* the value in hundredths.
Progress(sent, total) == (2 * sent * 10000 + total) \div (2 * total)

\* ------------------------------------------------------------ main()
\* An exit that sets the status and then waits instead of ending the process.
Exit_Hangs(status) ==
    /\ pc' = "hang"
    /\ exit_status' = status

\* sys.exit(status): the process ends with the status.
Exit(status) ==
    /\ pc' = "done"
    /\ exit_status' = status

\* main, lines 428-439: the input source.
ReadInput ==
    /\ pc = "start"
    /\ USE_CLIPBOARD' = args.c
    /\ IF args.c
       THEN /\ clipboard_content' = clipboard
            /\ reads' = Append(reads, [source |-> "clipboard", at |-> pc])
            /\ UNCHANGED file_path
       ELSE /\ clipboard_content' = <<>>
            /\ file_path' = args.path_to_file
            /\ UNCHANGED reads
    /\ pc' = "read_config"
    /\ UNCHANGED <<shell, inputs, app_config, WINDOW_ID, spawned, attempt, step_i, chunk_i,
                   text, chars_sent, send_result, stdout, exit_status, cmds, trace,
                   touched, search_calls>>

\* A read_config that returns whatever the file's state is.
ReadFails_Never(cf) == FALSE

\* read_config, lines 56-66: the file cannot be opened or is not JSON.
ReadFails(cf) == cf.state \in {"unreadable", "malformed"}

\* main, lines 441-447: read_config, then the configuration name.
ReadConfig ==
    /\ pc = "read_config"
    /\ IF ReadFails(config_file)
       THEN Exit(1)
       ELSE IF args.config_name = ""
            THEN Exit(1)
            ELSE pc' = "load_config" /\ UNCHANGED exit_status
    /\ UNCHANGED <<shell, inputs, USE_CLIPBOARD, clipboard_content, file_path, app_config,
                   WINDOW_ID, spawned, attempt, step_i, chunk_i, text, chars_sent,
                   send_result, stdout, cmds, trace, touched, search_calls, reads>>

\* load_config, lines 84-90: the named configuration, {} when the name is
\* absent, with every missing timing key taken from the environment.
Selected(cf, name, env) ==
    LET found == IF name = "app" THEN cf.app ELSE EmptyDict
    IN  [k \in DOMAIN found \cup EnvKeys |->
            IF k \in DOMAIN found THEN found[k] ELSE env[k]]

\* load_config, lines 93-96: float() of every timing value.
Converted(d) ==
    [k \in DOMAIN d |-> IF k \in NumKeys THEN FloatOf[d[k]] ELSE d[k]]

\* main, lines 449-454: load_config, then the check of app_config.
LoadConfig ==
    /\ pc = "load_config"
    /\ IF config_file.state = "no_applications"
       THEN Exit(1) /\ UNCHANGED app_config
       ELSE LET d == Selected(config_file, args.config_name, environ)
            IN  IF \E k \in NumKeys : ~CanFloat(d[k])
                THEN Exit(1) /\ UNCHANGED app_config
                ELSE /\ app_config' = Converted(d)
                     /\ IF DOMAIN app_config' = {}
                        THEN Exit(1)
                        ELSE pc' = "resolve" /\ UNCHANGED exit_status
    /\ UNCHANGED <<shell, inputs, USE_CLIPBOARD, clipboard_content, file_path,
                   WINDOW_ID, spawned, attempt, step_i, chunk_i, text, chars_sent,
                   send_result, stdout, cmds, trace, touched, search_calls, reads>>

\* A main that never launches.
UsesLaunch_Never(cfg) == FALSE

\* main, line 459: the window comes from launching the application.
UsesLaunch(cfg) == cfg["type"] = "local" /\ "launch_command" \in DOMAIN cfg

\* A main that takes -w as given even when it is empty.
HasWindowArg_Always(a) == TRUE

\* main, line 465: a window id was given with -w.
HasWindowArg(a) == a.w # ""

\* main, lines 458-470, and launch_application up to its search loop.
\* spawn_ok: Popen started the application (it raises otherwise).
ResolveWindow ==
    /\ pc = "resolve"
    /\ \E spawn_ok \in BOOLEAN :
        IF "type" \notin DOMAIN app_config
        THEN Exit(7) /\ UNCHANGED <<WINDOW_ID, spawned, trace>>
        ELSE IF UsesLaunch(app_config)
        THEN IF ~spawn_ok
             THEN Exit(7) /\ UNCHANGED <<WINDOW_ID, spawned, trace>>
             ELSE /\ spawned' = TRUE
                  /\ trace' = <<Sleep("APP_LOAD_TIME")>>
                  /\ UNCHANGED WINDOW_ID
                  /\ IF "window_match" \notin DOMAIN app_config
                     THEN Exit(1)
                     ELSE pc' = "search" /\ UNCHANGED exit_status
        ELSE IF HasWindowArg(args)
        THEN /\ WINDOW_ID' = args.w
             /\ pc' = "steps"
             /\ UNCHANGED <<exit_status, spawned, trace>>
        ELSE Exit(1) /\ UNCHANGED <<WINDOW_ID, spawned, trace>>
    /\ UNCHANGED <<shell, inputs, USE_CLIPBOARD, clipboard_content, file_path, app_config,
                   attempt, step_i, chunk_i, text, chars_sent,
                   send_result, stdout, cmds, touched, search_calls, reads>>

\* What one xdotool search call lists: window ids in order, each with
\* whether its title (getwindowname) contains the match pattern.
WindowIds == {"0x2", "0x3"}
SearchResults == SeqsUpTo([id : WindowIds, matches : BOOLEAN], MaxWindows)

\* launch_application, lines 290-297: the index of the first listed window
\* whose title contains the pattern, 0 when none does.
FirstMatch(res) ==
    IF \E i \in 1..Len(res) : res[i].matches
    THEN CHOOSE i \in 1..Len(res) :
            /\ res[i].matches
            /\ \A j \in 1..(i - 1) : ~res[j].matches
    ELSE 0

\* The windows one search lists, as the call sees them: each id followed by
\* "match" or "other" for its title.
Listing(res) ==
    [k \in 1..(2 * Len(res)) |->
        IF k % 2 = 1 THEN res[(k + 1) \div 2].id
        ELSE IF res[k \div 2].matches THEN "match" ELSE "other"]

\* The calls of one attempt: the one-second wait, the search, then
\* getwindowname for each listed window up to the one returned.
SearchTrace(pattern, res) ==
    LET m == FirstMatch(res)
        n == IF m = 0 THEN Len(res) ELSE m
    IN  <<Sleep("1"), Cmd("search", <<pattern>> \o Listing(res), 0, "ignored")>>
        \o [i \in 1..n |->
              Cmd("getwindowname",
                  <<res[i].id, IF res[i].matches THEN "match" ELSE "other">>, 0, "ignored")]

\* A search loop that runs once more.
MoreAttempts_OffByOne(n) == n <= MaxAttempts

\* launch_application, line 283: range(10) has another attempt.
MoreAttempts(n) == n < MaxAttempts

\* launch_application, lines 283-300: one attempt of the search loop, or
\* the return of None after the last one (main then exits 1).
SearchAttempt ==
    /\ pc = "search"
    /\ IF MoreAttempts(attempt)
       THEN \E res \in SearchResults :
              /\ attempt' = attempt + 1
              /\ search_calls' = search_calls + 1
              /\ trace' = SearchTrace(app_config["window_match"], res)
              /\ IF FirstMatch(res) # 0
                 THEN /\ WINDOW_ID' = res[FirstMatch(res)].id
                      /\ pc' = "steps"
                 ELSE UNCHANGED <<WINDOW_ID, pc>>
              /\ UNCHANGED exit_status
       ELSE /\ Exit(1)
            /\ trace' = <<>>
            /\ UNCHANGED <<WINDOW_ID, attempt, search_calls>>
    /\ UNCHANGED <<shell, inputs, USE_CLIPBOARD, clipboard_content, file_path, app_config,
                   spawned, step_i, chunk_i, text, chars_sent,
                   send_result, stdout, cmds, touched, reads>>

\* ------------------------------------------------------- execute_steps
Min(a, b) == IF a < b THEN a ELSE b

\* An execute_steps that goes on after a failed dispatch.
StepVerdict_Continue(ok) == "continue"

\* execute_steps, lines 121-123: a failed dispatch ends the sequence.
StepVerdict(ok) == IF ok THEN "continue" ELSE "return False"

\* main, lines 476-478: execute_steps returned False.
StepsFailed == Exit(1)

\* A loop that leaves out the step after the current one.
NextStep_SkipsOne(i) == i + 2

\* execute_steps, line 115: for step in steps.
NextStep(i) == i + 1

\* One iteration of execute_steps (one step, or one chunk of a type step),
\* or its return of True after the last step.
ExecuteStep ==
    /\ pc = "steps"
    /\ IF "open_steps" \notin DOMAIN app_config
       THEN Exit(7) /\ trace' = <<>> /\ UNCHANGED <<step_i, chunk_i, cmds, touched>>
       ELSE LET steps == app_config["open_steps"] IN
        IF step_i > Len(steps)
        THEN /\ pc' = "decide"
             /\ trace' = <<>>
             /\ UNCHANGED <<exit_status, step_i, chunk_i, cmds, touched>>
        ELSE LET action == steps[step_i].action
                 value == steps[step_i].value
                 size == app_config["CHUNK_SIZE"]
                 chunk == SubSeq(value, chunk_i + 1, Min(chunk_i + size, Len(value)))
                 last == chunk_i + size >= Len(value)
                 arg == IF action = "type" THEN chunk ELSE value
             IN
             IF action = "launch_window"
             THEN /\ step_i' = NextStep(step_i)
                  /\ trace' = <<>>
                  /\ UNCHANGED <<pc, exit_status, chunk_i, cmds, touched>>
             ELSE IF generate_xdotool_command(action) = "ValueError"
             THEN Exit(7) /\ trace' = <<>> /\ UNCHANGED <<step_i, chunk_i, cmds, touched>>
             ELSE IF action = "type" /\ Len(value) = 0
             THEN /\ step_i' = NextStep(step_i)
                  /\ trace' = <<Sleep("DELAY_BETWEEN_COMMANDS")>>
                  /\ UNCHANGED <<pc, exit_status, chunk_i, cmds, touched>>
             ELSE \E r \in ActRcs, rc \in RC :
                  LET run == RunCommand(WINDOW_ID, action, arg, r, rc) IN
                  /\ touched' = (touched \/ Touches(run.trace))
                  /\ cmds' = IF run.ran
                             THEN Append(cmds, Dispatched(WINDOW_ID, action, arg, rc, pc))
                             ELSE cmds
                  /\ IF StepVerdict(run.ok) = "return False"
                     THEN /\ StepsFailed
                          /\ trace' = Observed(run.trace)
                          /\ UNCHANGED <<step_i, chunk_i>>
                     ELSE IF action = "type" /\ ~last
                     THEN /\ chunk_i' = chunk_i + size
                          /\ trace' = Observed(run.trace) \o <<Sleep("DELAY_BETWEEN_CHUNKS")>>
                          /\ UNCHANGED <<pc, exit_status, step_i>>
                     ELSE /\ step_i' = NextStep(step_i)
                          /\ chunk_i' = 0
                          /\ trace' = Observed(run.trace)
                                \o (IF action = "type"
                                    THEN <<Sleep("DELAY_BETWEEN_CHUNKS")>>
                                    ELSE <<>>)
                                \o <<Sleep("DELAY_BETWEEN_COMMANDS")>>
                          /\ UNCHANGED <<pc, exit_status>>
    /\ UNCHANGED <<shell, inputs, USE_CLIPBOARD, clipboard_content, file_path, app_config,
                   WINDOW_ID, spawned, attempt, text, chars_sent,
                   send_result, stdout, search_calls, reads>>

\* ------------------------------------------------------ payload decision
\* open(file_path).read(): raises when no path was given or the file
\* cannot be read.
CanOpen == file_path # "" /\ file.readable

\* A main that does not look at no_payload.
NoPayload_Ignored(cfg) == FALSE

\* A main that skips the payload only for a configuration with a known mode.
NoPayload_NeedsMode(cfg) ==
    Get(cfg, "no_payload", FALSE)
        /\ Get(cfg, "mode", "") \in {"text", "spreadsheet", "image", "code"}

\* main, line 481: the no_payload flag.
NoPayload(cfg) == Get(cfg, "no_payload", FALSE)

\* A mode chain without its final else: an unknown mode transfers nothing
\* and falls through to the end of main.
ModeBranch_FallThrough(mode) ==
    CASE mode = "" -> "No mode selected"
      [] mode \in {"spreadsheet", "text", "code"} -> mode
      [] OTHER -> "image"

\* A mode chain whose image branch sends the content like the text branch.
ModeBranch_ImageSends(mode) ==
    CASE mode = "" -> "No mode selected"
      [] mode \in {"spreadsheet", "text", "code"} -> mode
      [] mode = "image" -> "text"
      [] OTHER -> "Invalid mode selected"

\* main, lines 488-524: the branch a mode takes.
ModeBranch(mode) ==
    CASE mode = "" -> "No mode selected"
      [] mode = "spreadsheet" -> "spreadsheet"
      [] mode = "text" -> "text"
      [] mode = "image" -> "image"
      [] mode = "code" -> "code"
      [] OTHER -> "Invalid mode selected"

\* main, lines 480-524: no_payload, the mode, and the content handed to
\* send_text_to_window.
PayloadDecision ==
    /\ pc = "decide"
    /\ LET mode == ModeBranch(Get(app_config, "mode", "")) IN
       IF NoPayload(app_config)
       THEN /\ stdout' = Append(stdout, Final100)
            /\ Exit(0)
            /\ UNCHANGED <<clipboard_content, text, reads>>
       ELSE IF mode = "No mode selected"
       THEN Exit(6) /\ UNCHANGED <<clipboard_content, text, reads, stdout>>
       ELSE IF mode = "spreadsheet" /\ USE_CLIPBOARD
       THEN /\ clipboard_content' = clipboard
            /\ reads' = Append(reads, [source |-> "clipboard", at |-> pc])
            /\ IF clipboard_content' # <<>>
               THEN text' = clipboard_content' /\ pc' = "send"
               ELSE pc' = "finish" /\ UNCHANGED text
            /\ UNCHANGED <<exit_status, stdout>>
       ELSE IF mode \in {"text", "code"} /\ USE_CLIPBOARD
       THEN /\ text' = clipboard_content
            /\ pc' = "send"
            /\ UNCHANGED <<exit_status, stdout, clipboard_content, reads>>
       ELSE IF mode \in {"spreadsheet", "text", "code"}
       THEN IF CanOpen
            THEN /\ text' = file.content
                 /\ reads' = Append(reads, [source |-> "file", at |-> pc])
                 /\ pc' = "send"
                 /\ UNCHANGED <<exit_status, stdout, clipboard_content>>
            ELSE Exit(7) /\ UNCHANGED <<clipboard_content, text, reads, stdout>>
       ELSE IF mode = "image"
       THEN /\ pc' = "finish"
            /\ UNCHANGED <<exit_status, stdout, clipboard_content, text, reads>>
       ELSE Exit(6) /\ UNCHANGED <<clipboard_content, text, reads, stdout>>
    /\ trace' = <<>>
    /\ UNCHANGED <<shell, inputs, USE_CLIPBOARD, file_path, app_config, WINDOW_ID, spawned,
                   attempt, step_i, chunk_i, chars_sent, send_result, cmds,
                   touched, search_calls>>

\* ---------------------------------------------------- send_text_to_window
\* A sender without the check of its text.
NoText_Never(t) == FALSE

\* Line 335: if not text.
NoText(t) == t = <<>>

\* Lines 335-342: the empty text is refused, then the window is activated.
SendActivate ==
    /\ pc = "send"
    /\ IF NoText(text)
       THEN /\ send_result' = "False"
            /\ pc' = "finish"
            /\ trace' = <<>>
            /\ UNCHANGED touched
       ELSE \E r \in ActRcs :
            LET act == activate_window(WINDOW_ID, r) IN
            /\ trace' = Observed(act.trace)
            /\ touched' = TRUE
            /\ IF act.ok
               THEN pc' = "send_focus" /\ UNCHANGED send_result
               ELSE pc' = "finish" /\ send_result' = "False"
    /\ UNCHANGED <<shell, inputs, USE_CLIPBOARD, clipboard_content, file_path, app_config,
                   WINDOW_ID, spawned, attempt, step_i, chunk_i, text, chars_sent,
                   stdout, exit_status, cmds, search_calls, reads>>

\* Lines 344-359: windowfocus with check=True (outside the try block: its
\* failure leaves main), the active-window check and the reactivation.
SendFocus ==
    /\ pc = "send_focus"
    /\ \E rc \in RC, active \in BOOLEAN, r \in ActRcs :
        LET focus == <<Cmd("windowfocus", <<WINDOW_ID>>, rc, "check")>>
            act == activate_window(WINDOW_ID, r)
        IN
        IF rc # 0
        THEN /\ trace' = focus
             /\ Exit(7)
             /\ UNCHANGED <<send_result, chars_sent>>
        ELSE /\ trace' = focus \o <<Sleep("0.5"), Cmd("getactivewindow", <<>>, 0, "ignored")>>
                    \o (IF active THEN <<>> ELSE Observed(act.trace))
             /\ chars_sent' = 0
             /\ IF active \/ act.ok
                THEN pc' = "send_char" /\ UNCHANGED <<send_result, exit_status>>
                ELSE pc' = "finish" /\ send_result' = "False" /\ UNCHANGED exit_status
    /\ UNCHANGED <<shell, inputs, USE_CLIPBOARD, clipboard_content, file_path, app_config,
                   WINDOW_ID, spawned, attempt, step_i, chunk_i, text,
                   stdout, cmds, touched, search_calls, reads>>

\* A sender that passes the character itself as the key name.
KeyOf_Identity(char) == char

\* Lines 363-366: the key name of a character.
KeyOf(char) == IF char = NL THEN "Return" ELSE convert_to_xdotool_key(char)

\* A sender that only reports after the last character.
Reports_OnlyAtEnd(sent, total) == sent = total

\* Line 375: whether a PROGRESS line is printed after sent characters.
Reports(sent, total) == sent % ProgressEvery = 0 \/ sent = total

\* Lines 370-372: a failed key dispatch ends the send.
CharVerdict(ok) == IF ok THEN "continue" ELSE "return False"

\* Lines 362-381: one iteration of the character loop; after the last
\* character the function returns True.
SendChar ==
    /\ pc = "send_char"
    /\ \E r \in ActRcs, rc \in RC :
        LET key == <<KeyOf(text[chars_sent + 1])>>
            run == RunCommand(WINDOW_ID, "key", key, r, rc)
        IN
        /\ cmds' = IF run.ran
                   THEN Append(cmds, Dispatched(WINDOW_ID, "key", key, rc, pc))
                   ELSE cmds
        /\ IF CharVerdict(run.ok) = "return False"
           THEN /\ trace' = Observed(run.trace)
                /\ send_result' = "False"
                /\ pc' = "finish"
                /\ UNCHANGED <<chars_sent, stdout>>
           ELSE /\ trace' = Observed(run.trace) \o <<Sleep("DELAY_BETWEEN_COMMANDS"),
                                           Sleep("DELAY_BETWEEN_KEYS")>>
                /\ chars_sent' = chars_sent + 1
                /\ stdout' = IF Reports(chars_sent', Len(text))
                             THEN Append(stdout, Progress(chars_sent', Len(text)))
                             ELSE stdout
                /\ IF chars_sent' = Len(text)
                   THEN send_result' = "True" /\ pc' = "finish"
                   ELSE UNCHANGED <<send_result, pc>>
    /\ UNCHANGED <<shell, inputs, USE_CLIPBOARD, clipboard_content, file_path, app_config,
                   WINDOW_ID, spawned, attempt, step_i, chunk_i, text,
                   exit_status, touched, search_calls, reads>>

\* main, lines 526-527: whatever send_text_to_window returned, the final
\* PROGRESS line is printed and main returns (exit status 0).
Finish ==
    /\ pc = "finish"
    /\ stdout' = Append(stdout, Final100)
    /\ Exit(0)
    /\ trace' = <<>>
    /\ UNCHANGED <<shell, inputs, USE_CLIPBOARD, clipboard_content, file_path, app_config,
                   WINDOW_ID, spawned, attempt, step_i, chunk_i, text, chars_sent,
                   send_result, cmds, touched, search_calls, reads>>

Next ==
    \/ ReadInput
    \/ ReadConfig
    \/ LoadConfig
    \/ ResolveWindow
    \/ SearchAttempt
    \/ ExecuteStep
    \/ PayloadDecision
    \/ SendActivate
    \/ SendFocus
    \/ SendChar
    \/ Finish

Spec == Init /\ [][Next]_vars

\* ===================================================== the claims' terms
Range(s) == {s[i] : i \in 1..Len(s)}
PayloadPhases == {"send_char", "l_line", "l_char", "l_image"}
IsPayloadCmd(e) == e.phase \in PayloadPhases
IsStepCmd(e) == e.phase = "steps"
PayloadCmds == SelectSeq(cmds, IsPayloadCmd)
StepCmds == SelectSeq(cmds, IsStepCmd)
Done == pc = "done"
ConfigLoaded == DOMAIN app_config # {}
CfgMode == Get(app_config, "mode", "")
CfgNoPayload == Get(app_config, "no_payload", FALSE)
CfgLaunch == /\ "type" \in DOMAIN app_config
             /\ app_config["type"] = "local"
             /\ "launch_command" \in DOMAIN app_config
ValidModes == {"text", "spreadsheet", "image", "code"}
\* The payload the job was started on.
Payload == IF args.c THEN clipboard ELSE file.content
\* The step sequencer ran over the whole list.
StepsSucceeded ==
    /\ WINDOW_ID # ""
    /\ "open_steps" \in DOMAIN app_config
    /\ step_i > Len(app_config["open_steps"])
\* The step sequencer was started and stopped before the end of the list.
StepsAborted ==
    /\ Done
    /\ WINDOW_ID # ""
    /\ "open_steps" \in DOMAIN app_config
    /\ step_i <= Len(app_config["open_steps"])
\* No call whose exit status the program checks has failed.
NoCheckedFailure ==
    /\ \A i \in 1..Len(cmds) : cmds[i].rc = 0
    /\ \A i \in 1..Len(trace) : trace[i].use = "check" => trace[i].rc = 0

\* C1: in a text- or code-mode job with no_payload false whose text send
\* reports failure, the job ends with a non-zero exit status and the final
\* PROGRESS:100.00 is never written.
C1_FailedSendAborts ==
    (Done /\ ConfigLoaded /\ CfgMode \in {"text", "code"} /\ ~CfgNoPayload
          /\ send_result = "False")
    => (exit_status # 0 /\ Final100 \notin Range(stdout))

\* C2: a text-mode job with no_payload false whose payload of N >= 1
\* characters reaches the sender and meets no failing call dispatches exactly
\* N keys, the i-th the mapped i-th character, writes PROGRESS:100.00 last
\* and exits 0.
C2_TextPayloadDispatched ==
    (Done /\ ConfigLoaded /\ CfgMode = "text" /\ ~CfgNoPayload
          /\ text # <<>> /\ Len(Payload) >= 1 /\ NoCheckedFailure)
    => /\ Len(PayloadCmds) = Len(Payload)
       /\ \A i \in 1..Len(PayloadCmds) :
            /\ PayloadCmds[i].action = "key"
            /\ PayloadCmds[i].value = <<convert_to_xdotool_key(Payload[i])>>
       /\ stdout # <<>>
       /\ stdout[Len(stdout)] = Final100
       /\ exit_status = 0
C2_Witness ==
    /\ Done /\ CfgMode = "text" /\ ~CfgNoPayload /\ NoCheckedFailure
    /\ Payload = <<"h", NL>>
    /\ Len(PayloadCmds) = 2
    /\ PayloadCmds[2].value = <<"Return">>
    /\ exit_status = 0

\* C3: with no_payload set and all open steps succeeded, no payload command
\* is dispatched, the only PROGRESS line is 100.00 and the exit status is 0.
C3_NoPayloadSkips ==
    (Done /\ ConfigLoaded /\ CfgNoPayload /\ StepsSucceeded)
    => /\ PayloadCmds = <<>>
       /\ send_result = "none"
       /\ stdout = <<Final100>>
       /\ exit_status = 0
C3_Witness ==
    /\ Done /\ CfgNoPayload /\ StepsSucceeded
    /\ Len(StepCmds) >= 1
    /\ clipboard # <<>>
    /\ exit_status = 0

\* C4: once an open step has failed the job is over: the process has exited
\* non-zero, no payload command was dispatched and PROGRESS:100.00 was not
\* written.
C4_FailedStepAborts ==
    ((\E i \in 1..Len(cmds) : IsStepCmd(cmds[i]) /\ cmds[i].rc # 0) \/ StepsAborted)
    => /\ Done
       /\ exit_status # 0
       /\ PayloadCmds = <<>>
       /\ text = <<>>
       /\ Final100 \notin Range(stdout)
C4_Witness ==
    /\ Done
    /\ Len(cmds) = 2
    /\ cmds[1].rc = 0
    /\ cmds[2].rc # 0
    /\ IsStepCmd(cmds[2])
    /\ ~CfgNoPayload
    /\ exit_status = 1

\* C5: the phases come in order: a command is only ever sent to the resolved
\* window of a loaded configuration, the payload phase only starts after the
\* step sequencer has run over the whole list, and no step command follows a
\* payload command.
C5_PhaseOrder ==
    /\ (cmds # <<>> \/ touched) => (ConfigLoaded /\ WINDOW_ID # "")
    /\ \A i \in 1..Len(cmds) : cmds[i].window = WINDOW_ID
    /\ \A i, j \in 1..Len(cmds) : (i < j /\ IsPayloadCmd(cmds[i])) => IsPayloadCmd(cmds[j])
    /\ pc \in {"resolve", "search"} => (ConfigLoaded /\ cmds = <<>> /\ ~touched)
    /\ pc = "steps" => (ConfigLoaded /\ WINDOW_ID # "" /\ PayloadCmds = <<>>)
    /\ (pc \in {"decide", "send", "send_focus", "send_char", "finish"} \/ PayloadCmds # <<>>)
        => StepsSucceeded
C5_Witness ==
    /\ Done
    /\ Len(StepCmds) >= 1
    /\ Len(PayloadCmds) >= 2
    /\ exit_status = 0

\* C6: a job that ended on a configuration error or without a window handle
\* has issued no activation, map, focus, raise, key or type command.
C6_EarlyAbortTouchesNothing ==
    (Done /\ (config_file.state # "ok" \/ args.config_name # "app"
              \/ ~ConfigLoaded \/ WINDOW_ID = ""))
    => (~touched /\ cmds = <<>> /\ exit_status # 0)
C6_Witness ==
    /\ Done
    /\ spawned
    /\ search_calls = MaxAttempts
    /\ WINDOW_ID = ""
    /\ ~touched

\* C7: with type local and a launch command the handle is the one found by
\* launching, whatever -w says; otherwise it is the -w identifier; a job left
\* without a handle exits non-zero and the step sequencer never runs.
C7_WindowPath ==
    /\ (CfgLaunch /\ WINDOW_ID # "") => (spawned /\ WINDOW_ID \in WindowIds)
    /\ (ConfigLoaded /\ ~CfgLaunch /\ WINDOW_ID # "") => (~spawned /\ WINDOW_ID = args.w)
    /\ (pc \notin {"start", "read_config", "load_config", "resolve", "search"} /\ WINDOW_ID = "")
        => (Done /\ exit_status # 0 /\ step_i = 1 /\ cmds = <<>> /\ ~touched)
C7_Witness ==
    /\ Done
    /\ CfgLaunch
    /\ args.w # ""
    /\ WINDOW_ID \in WindowIds
    /\ Len(cmds) >= 1
    /\ exit_status = 0

\* C8: the locator never makes more than MaxAttempts search calls; an attempt
\* that lists no matching window returns no handle and is followed by the
\* next attempt; NotFound is returned only after exactly MaxAttempts calls,
\* and a handle only for a window the last search listed as matching.
MatchListed(tr) == \E i \in 1..Len(tr) : tr[i].cmd = "getwindowname" /\ tr[i].arg[2] = "match"
C8_LocatorStep ==
    pc = "search" =>
        /\ (pc' = "done" => (search_calls = MaxAttempts /\ search_calls' = search_calls
                             /\ WINDOW_ID' = "" /\ exit_status' = 1))
        /\ (pc' = "search" => (search_calls' = search_calls + 1 /\ ~MatchListed(trace')
                               /\ WINDOW_ID' = ""))
        /\ (pc' = "steps" => (search_calls' = search_calls + 1 /\ MatchListed(trace')
                              /\ trace'[Len(trace')].arg = <<WINDOW_ID', "match">>))
        /\ (~MatchListed(trace') => WINDOW_ID' = "")
C8_LocatorBounded ==
    /\ [](search_calls <= MaxAttempts /\ attempt = search_calls)
    /\ [][C8_LocatorStep]_vars
C8_Witness ==
    /\ Done
    /\ spawned
    /\ search_calls = MaxAttempts
    /\ WINDOW_ID = ""
    /\ exit_status = 1

\* C9: when the file is unreadable or malformed, or the named configuration
\* is not in it, the process exits with status 1, whatever the environment
\* defines.
C9_AbsentConfigExits1 ==
    (Done /\ (config_file.state # "ok" \/ args.config_name # "app"))
    => exit_status = 1

C11_UnreadableSourceExits1 ==
    (Done /\ StepsSucceeded /\ ~CfgNoPayload
          /\ CfgMode \in {"text", "code", "spreadsheet"}
          /\ ~args.c /\ (args.path_to_file = "" \/ ~file.readable))
    => exit_status = 1

\* ================================================== long payloads
\* Jobs whose payload is long enough for send_text_to_window to write
\* PROGRESS lines before the last character (line 375: every ProgressEvery
\* characters): one short of a report, exactly one, one past, and past two.
LongExtra == 1
LongLens == {ProgressEvery - 1, ProgressEvery, ProgressEvery + 1,
             2 * ProgressEvery, 2 * ProgressEvery + LongExtra}
LongText(n) == [i \in 1..n |-> IF i = ProgressEvery THEN NL ELSE "h"]
LongSources ==
    {[c |-> TRUE, path |-> "", clip |-> LongText(n), file |-> NoFile] : n \in LongLens}
    \cup {[c |-> FALSE, path |-> "in.txt", clip |-> <<>>, file |-> File(TRUE, LongText(n))] :
            n \in {2 * ProgressEvery}}
LongJobs ==
    {JobOf(src, "0x1", "app", ConfigFile("ok", Cfg("remote", FALSE, TRUE, Has(<<>>), Has(FALSE), mode, "1", TRUE)), NoEnv) :
        src \in LongSources, mode \in {"text", "spreadsheet"}}
    \cup {JobOf(src, "", "app", ConfigFile("ok", Cfg("local", TRUE, TRUE, OneKey, Has(FALSE), "code", "1", TRUE)), NoEnv) :
        src \in {s \in LongSources : Len(s.clip) = ProgressEvery}}

\* The state after construction, for a job of the set J.
InitOf(J) ==
    /\ \E j \in J :
        /\ args = j.args
        /\ config_file = j.config_file
        /\ environ = j.environ
        /\ clipboard = j.clipboard
        /\ file = j.file
    /\ script = "molly-macro.py"
    /\ pc = "start"
    /\ USE_CLIPBOARD = FALSE
    /\ clipboard_content = <<>>
    /\ file_path = ""
    /\ app_config = EmptyDict
    /\ WINDOW_ID = ""
    /\ spawned = FALSE
    /\ attempt = 0
    /\ step_i = 1
    /\ chunk_i = 0
    /\ text = <<>>
    /\ chars_sent = 0
    /\ send_result = "none"
    /\ stdout = <<>>
    /\ exit_status = -1
    /\ cmds = <<>>
    /\ trace = <<>>
    /\ touched = FALSE
    /\ search_calls = 0
    /\ reads = <<>>
    /\ ShellIdle

InitLong == InitOf(LongJobs)
SpecLong == InitLong /\ [][Next]_vars

\* C12: the PROGRESS values a job has written are each within 0.00..100.00
\* and none is lower than one written before it.
C12_ProgressMonotone ==
    /\ \A i \in 1..Len(stdout) : stdout[i] >= 0 /\ stdout[i] <= Final100
    /\ \A i, j \in 1..Len(stdout) : i < j => stdout[i] <= stdout[j]
\* A job of 201 characters has written 49.75, 99.50, 100.00 and 100.00.
C12_Witness ==
    /\ Done
    /\ Len(text) = 2 * ProgressEvery + LongExtra
    /\ Len(stdout) = 4
    /\ stdout[1] > 0 /\ stdout[1] < stdout[2] /\ stdout[2] < stdout[3]
    /\ stdout[4] = Final100

\* C13: the payload source is read at most once, and only at job start,
\* before window resolution and the open steps; a job that dispatches payload
\* commands has read it exactly once.
C13_SourceReadOnceAtStart ==
    /\ Len(reads) <= 1
    /\ \A i \in 1..Len(reads) : reads[i].at = "start"
    /\ PayloadCmds # <<>> => Len(reads) = 1

\* =========================== the command-line scripts paste_to_vdi.py and
\* past_to_vdi.py: no configuration file, the mode comes from the flags.
TAB == "\t"
Whitespace == {" ", TAB, NL}

\* str.strip()
strip(s) ==
    LET keep == {i \in 1..Len(s) : s[i] \notin Whitespace}
    IN  IF keep = {} THEN <<>>
        ELSE SubSeq(s, CHOOSE i \in keep : \A j \in keep : i <= j,
                       CHOOSE i \in keep : \A j \in keep : i >= j)

FirstIndex(s, c) == CHOOSE i \in 1..Len(s) : s[i] = c /\ \A j \in 1..(i - 1) : s[j] # c

\* str.split(sep): the empty string gives one empty field.
RECURSIVE split(_, _)
split(s, sep) ==
    IF \A i \in 1..Len(s) : s[i] # sep
    THEN <<s>>
    ELSE <<SubSeq(s, 1, FirstIndex(s, sep) - 1)>>
            \o split(SubSeq(s, FirstIndex(s, sep) + 1, Len(s)), sep)

\* str.splitlines(): no line ends kept, no empty last line.
RECURSIVE splitlines(_)
splitlines(s) ==
    IF s = <<>> THEN <<>>
    ELSE IF \A i \in 1..Len(s) : s[i] # NL
    THEN <<s>>
    ELSE <<SubSeq(s, 1, FirstIndex(s, NL) - 1)>>
            \o splitlines(SubSeq(s, FirstIndex(s, NL) + 1, Len(s)))

\* for line in f: every line keeps its line end.
RECURSIVE readlines(_)
readlines(s) ==
    IF s = <<>> THEN <<>>
    ELSE IF \A i \in 1..Len(s) : s[i] # NL
    THEN <<s>>
    ELSE <<SubSeq(s, 1, FirstIndex(s, NL))>>
            \o readlines(SubSeq(s, FirstIndex(s, NL) + 1, Len(s)))

\* line.strip() and not line.strip().startswith('#')
IsDataLine(line) == strip(line) # <<>> /\ strip(line)[1] # "#"

\* b64encode over the bytes of the characters used here.
Ord(c) == CASE c = "h" -> 104 [] c = "#" -> 35 [] c = NL -> 10 [] c = TAB -> 9
B64Alphabet == <<"A", "B", "C", "D", "E", "F", "G", "H", "I", "J", "K", "L", "M",
                 "N", "O", "P", "Q", "R", "S", "T", "U", "V", "W", "X", "Y", "Z",
                 "a", "b", "c", "d", "e", "f", "g", "h", "i", "j", "k", "l", "m",
                 "n", "o", "p", "q", "r", "s", "t", "u", "v", "w", "x", "y", "z",
                 "0", "1", "2", "3", "4", "5", "6", "7", "8", "9", "+", "/">>
RECURSIVE b64encode(_)
b64encode(s) ==
    IF s = <<>> THEN <<>>
    ELSE LET n == Len(s)
             v == Ord(s[1]) * 65536 + (IF n >= 2 THEN Ord(s[2]) * 256 ELSE 0)
                    + (IF n >= 3 THEN Ord(s[3]) ELSE 0)
             c(k) == B64Alphabet[((v \div (64 ^ k)) % 64) + 1]
         IN  <<c(3), c(2), IF n >= 2 THEN c(1) ELSE "=", IF n >= 3 THEN c(0) ELSE "=">>
                \o (IF n > 3 THEN b64encode(SubSeq(s, 4, n)) ELSE <<>>)
START_IMAGE == <<"S", "T", "A", "R", "T", "_", "I", "M", "A", "G", "E">>
END_IMAGE == <<"E", "N", "D", "_", "I", "M", "A", "G", "E">>

\* CHUNK_SIZE = int(os.getenv('CHUNK_SIZE', 5))
DefaultChunkSize == 5
CHUNK_SIZE(env) == IF env["CHUNK_SIZE"] = None THEN DefaultChunkSize ELSE FloatOf[env["CHUNK_SIZE"]]

\* The chunks of a typed value: value[i:i+CHUNK_SIZE] for i in range(0, len, CHUNK_SIZE).
Chunks(value, size) ==
    [k \in 1..((Len(value) + size - 1) \div size) |->
        SubSeq(value, (k - 1) * size + 1, Min(k * size, Len(value)))]

\* What open_notepad, open_excel and open_vscode send.
Keys(k) == [action |-> "key", value |-> <<k>>]
Types(v) == [action |-> "type", value |-> v]
OpenCmds(app) ==
    CASE app = "notepad" ->
            <<Keys("ctrl+Escape"), Types(<<"n", "o", "t", "e", "p", "a", "d">>), Keys("Return")>>
      [] app = "excel" ->
            <<Keys("ctrl+Escape"), Types(<<"e", "x", "c", "e", "l">>), Keys("Return")>>
      [] app = "vscode" ->
            <<Keys("ctrl+Escape"),
              Types(<<"V", "i", "s", "u", "a", "l", " ", "s", "t", "u", "d", "i", "o", " ",
                      "c", "o", "d", "e">>),
              Keys("Return"), Keys("alt"), Keys("f"), Keys("return")>>
      [] OTHER -> <<>>

\* send_line_spreadsheet: the calls of send_command_to_window for one line.
RECURSIVE FieldCmds(_)
FieldCmds(parts) ==
    IF Len(parts) = 1 THEN <<Types(parts[1])>>
    ELSE <<Types(parts[1]), Keys("Tab")>> \o FieldCmds(Tail(parts))
send_line_spreadsheet(line) == FieldCmds(split(line, TAB)) \o <<Keys("Return")>>

\* main: the if/elif chain over the flags (paste_to_vdi.py lines 535-590,
\* past_to_vdi.py lines 538-545): the first flag of the chain that is set.
FlagChain(flags) ==
    IF "-s" \in flags THEN "spreadsheet"
    ELSE IF "-t" \in flags THEN "text"
    ELSE IF "-i" \in flags THEN "image"
    ELSE IF "-e" \in flags THEN "code"
    ELSE "Invalid mode selected"

\* past_to_vdi.py lines 496-501: without a mode flag, -c means text mode.
Defaulted(flags, c) == IF flags = {} /\ c THEN {"-t"} ELSE flags

LegacyScripts == {"paste_to_vdi.py", "past_to_vdi.py"}
LegacyMode ==
    FlagChain(IF script = "past_to_vdi.py" THEN Defaulted(args.flags, args.c) ELSE args.flags)
\* The application a mode opens first; past_to_vdi.py's send_image opens Notepad.
LegacyApp ==
    CASE LegacyMode = "spreadsheet" -> "excel"
      [] LegacyMode = "text" -> "notepad"
      [] LegacyMode = "code" -> "vscode"
      [] LegacyMode = "image" /\ script = "past_to_vdi.py" -> "notepad"
      [] OTHER -> "none"

\* activate_window of the two scripts: windowactivate --sync and windowraise,
\* both with check=True inside one try; a failure is printed and skips the rest.
LegacyActRcs == {[act |-> 0, raise |-> 0], [act |-> 0, raise |-> 1], [act |-> 1, raise |-> 0]}
legacy_activate_window(window_id, a) ==
    <<Cmd("windowactivate", <<window_id>>, a.act, "check")>>
    \o (IF a.act = 0 THEN <<Cmd("windowraise", <<window_id>>, a.raise, "check")>> ELSE <<>>)
    \o (IF a.act = 0 /\ a.raise = 0 THEN <<Sleep("DELAY_BETWEEN_COMMANDS")>> ELSE <<>>)

\* send_command_to_window of the two scripts: what one call can do.  A typed
\* value goes out chunk by chunk until a chunk fails (fail = its index, 0 for
\* none); any other action is one command.  The caller gets True or False.
LegacySends(window_id, action, value, size, phase) ==
    IF action = "type"
    THEN LET chunks == Chunks(value, size) IN
         {[ok |-> fail = 0,
           cmds |-> [k \in 1..(IF fail = 0 THEN Len(chunks) ELSE fail) |->
                        Dispatched(window_id, action, chunks[k], IF k = fail THEN 1 ELSE 0, phase)]] :
            fail \in 0..Len(chunks)}
    ELSE {[ok |-> rc = 0, cmds |-> <<Dispatched(window_id, action, value, rc, phase)>>] : rc \in RC}

\* find_window_id: xdotool search --name with check=True; the last id listed.
\* ''.split('\n') is [''], so an empty listing gives the empty string.
find_window_id(rc, ids) ==
    IF rc # 0 THEN None ELSE IF ids = <<>> THEN "" ELSE ids[Len(ids)]

molly_only == <<app_config, spawned, attempt, send_result, touched, search_calls>>

\* The calls of one send_command_to_window of the two scripts: after every
\* chunk that went out the loop waits DELAY_BETWEEN_COMMANDS (line 263).
RECURSIVE CmdsTrace(_)
CmdsTrace(cs) ==
    IF cs = <<>> THEN <<>>
    ELSE <<Cmd(cs[1].action, cs[1].value, cs[1].rc, "check")>>
         \o (IF cs[1].action = "type" /\ cs[1].rc = 0
             THEN <<Sleep("DELAY_BETWEEN_COMMANDS")>> ELSE <<>>)
         \o CmdsTrace(Tail(cs))

\* main, the input source: paste_to_vdi.py lines 511-523; past_to_vdi.py lines
\* 495-520 (usage() and exit(1) on no mode, no path, empty clipboard, no file).
LegacyInput ==
    /\ pc = "l_start"
    /\ USE_CLIPBOARD' = args.c
    /\ IF script = "past_to_vdi.py" /\ ((args.flags = {} /\ ~args.c) \/ (~args.c /\ args.path_to_file = ""))
       THEN Exit(1) /\ UNCHANGED <<clipboard_content, file_path, reads>>
       ELSE IF args.c
       THEN /\ clipboard_content' = clipboard
            /\ reads' = Append(reads, [source |-> "clipboard", at |-> pc])
            /\ UNCHANGED file_path
            /\ IF script = "past_to_vdi.py" /\ clipboard = <<>>
               THEN Exit(1)
               ELSE pc' = "l_find" /\ UNCHANGED exit_status
       ELSE IF args.path_to_file # ""
       THEN /\ file_path' = args.path_to_file
            /\ UNCHANGED <<clipboard_content, reads>>
            /\ IF script = "past_to_vdi.py" /\ ~file.readable
               THEN Exit(1)
               ELSE pc' = "l_find" /\ UNCHANGED exit_status
       ELSE Exit(1) /\ UNCHANGED <<clipboard_content, file_path, reads>>
    /\ trace' = <<>>
    /\ UNCHANGED <<shell, inputs, molly_only, WINDOW_ID, step_i, chunk_i, text, chars_sent,
                   stdout, cmds>>

\* main: find_window_id and the exit when it found nothing (paste_to_vdi.py
\* lines 526-529); past_to_vdi.py then sleeps and activates (lines 523-536).
LegacyFindWindow ==
    /\ pc = "l_find"
    /\ \E rc \in RC, ids \in SeqsUpTo(WindowIds, MaxWindows), a \in LegacyActRcs :
        LET title == IF args.w # "" THEN args.w ELSE "WINDOW_TITLE"
            search == <<Cmd("search", <<title>> \o ids, rc, "check")>>
            found == find_window_id(rc, ids)
        IN
        /\ rc # 0 => ids = <<>>
        /\ IF found \in {None, ""}
           THEN /\ a = [act |-> 0, raise |-> 0]
                /\ Exit(1)
                /\ trace' = search
                /\ UNCHANGED WINDOW_ID
           ELSE /\ WINDOW_ID' = found
                /\ pc' = "l_mode"
                /\ IF script = "past_to_vdi.py"
                   THEN trace' = search \o <<Sleep("5")>> \o legacy_activate_window(found, a)
                   ELSE a = [act |-> 0, raise |-> 0] /\ trace' = search
                /\ UNCHANGED exit_status
    /\ UNCHANGED <<shell, inputs, molly_only, USE_CLIPBOARD, clipboard_content, file_path,
                   step_i, chunk_i, text, chars_sent, stdout, cmds, reads>>

\* main: the branch of the mode.  paste_to_vdi.py's image branch (lines
\* 567-569) only logs, and the second elif args.i after it is never taken;
\* without any flag usage() exits 1.  past_to_vdi.py's image branch builds
\* the image data (lines 573-580) before send_image activates the window.
LegacyBranch ==
    /\ pc = "l_mode"
    /\ IF LegacyMode = "Invalid mode selected"
       THEN Exit(1) /\ trace' = <<>> /\ UNCHANGED <<step_i, text, reads>>
       ELSE IF LegacyApp = "none"
       THEN pc' = "l_end" /\ trace' = <<>> /\ UNCHANGED <<exit_status, step_i, text, reads>>
       ELSE /\ \E a \in LegacyActRcs : trace' = legacy_activate_window(WINDOW_ID, a)
            /\ pc' = "l_open"
            /\ step_i' = 1
            /\ IF LegacyMode = "image" /\ ~USE_CLIPBOARD
               THEN /\ text' = START_IMAGE \o <<NL>> \o b64encode(file.content) \o <<NL>> \o END_IMAGE
                    /\ reads' = Append(reads, [source |-> "file", at |-> pc])
               ELSE IF LegacyMode = "image"
               THEN text' = clipboard_content /\ UNCHANGED reads
               ELSE UNCHANGED <<text, reads>>
            /\ UNCHANGED exit_status
    /\ UNCHANGED <<shell, inputs, molly_only, USE_CLIPBOARD, clipboard_content, file_path,
                   WINDOW_ID, chunk_i, chars_sent, stdout, cmds>>

\* open_notepad, open_excel, open_vscode: one send_command_to_window call per
\* step; after the last one main takes the content (the clipboard snapshot,
\* or the file, opened here: a file that cannot be opened raises and the
\* interpreter exits 1) and enters the mode's loop.
LegacyOpen ==
    /\ pc = "l_open"
    /\ LET ds == OpenCmds(LegacyApp) IN
       IF step_i <= Len(ds)
       THEN /\ \E a \in LegacyActRcs :
                \E o \in LegacySends(WINDOW_ID, ds[step_i].action, ds[step_i].value,
                                     CHUNK_SIZE(environ), pc) :
                    /\ cmds' = cmds \o o.cmds
                    /\ trace' = legacy_activate_window(WINDOW_ID, a) \o CmdsTrace(o.cmds)
            /\ step_i' = step_i + 1
            /\ UNCHANGED <<pc, exit_status, text, reads, chunk_i, chars_sent>>
       ELSE /\ cmds' = cmds
            /\ step_i' = 1
            /\ chunk_i' = 0
            /\ chars_sent' = 0
            /\ IF LegacyMode = "image"
               THEN /\ pc' = "l_image"
                    /\ trace' = <<Sleep("DELAY_BETWEEN_APPLICATIONS")>>
                    /\ UNCHANGED <<exit_status, text, reads>>
               ELSE IF ~USE_CLIPBOARD /\ ~file.readable
               THEN Exit(1) /\ trace' = <<>> /\ UNCHANGED <<text, reads>>
               ELSE /\ text' = IF USE_CLIPBOARD THEN clipboard_content ELSE file.content
                    /\ reads' = reads
                        \o (IF USE_CLIPBOARD THEN <<>>
                            ELSE IF LegacyMode = "spreadsheet" /\ script = "paste_to_vdi.py"
                            THEN <<[source |-> "file", at |-> pc], [source |-> "file", at |-> pc]>>
                            ELSE <<[source |-> "file", at |-> pc]>>)
                    /\ pc' = IF LegacyMode = "spreadsheet" THEN "l_line" ELSE "l_char"
                    /\ IF LegacyMode # "spreadsheet" /\ script = "past_to_vdi.py"
                       THEN \E a \in LegacyActRcs : trace' = legacy_activate_window(WINDOW_ID, a)
                       ELSE trace' = <<>>
                    /\ UNCHANGED exit_status
    /\ UNCHANGED <<shell, inputs, molly_only, USE_CLIPBOARD, clipboard_content, file_path,
                   WINDOW_ID, stdout>>

\* main, spreadsheet mode (paste_to_vdi.py lines 535-555, past_to_vdi.py lines
\* 552-564): the lines of the content, each data line handed to
\* send_line_spreadsheet; one call of send_command_to_window per firing.
\* paste_to_vdi.py prints current_line/total_lines after each line sent.
LegacySendLine ==
    /\ pc = "l_line"
    /\ LET lines == IF USE_CLIPBOARD THEN splitlines(text) ELSE readlines(text)
           total == IF USE_CLIPBOARD THEN Len(lines)
                    ELSE Cardinality({i \in 1..Len(lines) : IsDataLine(lines[i])})
       IN
       IF step_i > Len(lines)
       THEN /\ pc' = "l_end"
            /\ trace' = <<>>
            /\ UNCHANGED <<step_i, chunk_i, chars_sent, stdout, cmds>>
       ELSE IF ~IsDataLine(lines[step_i])
       THEN /\ step_i' = step_i + 1
            /\ trace' = <<>>
            /\ UNCHANGED <<pc, chunk_i, chars_sent, stdout, cmds>>
       ELSE LET ds == send_line_spreadsheet(lines[step_i])
                d == ds[chunk_i + 1]
            IN
            /\ \E a \in LegacyActRcs :
                \E o \in LegacySends(WINDOW_ID, d.action, d.value, CHUNK_SIZE(environ), pc) :
                    /\ cmds' = cmds \o o.cmds
                    /\ trace' = legacy_activate_window(WINDOW_ID, a) \o CmdsTrace(o.cmds)
            /\ IF chunk_i + 1 < Len(ds)
               THEN chunk_i' = chunk_i + 1 /\ UNCHANGED <<pc, step_i, chars_sent, stdout>>
               ELSE /\ chunk_i' = 0
                    /\ step_i' = step_i + 1
                    /\ chars_sent' = chars_sent + 1
                    /\ stdout' = IF script = "paste_to_vdi.py"
                                 THEN Append(stdout, Progress(chars_sent', total))
                                 ELSE stdout
                    /\ UNCHANGED pc
    /\ UNCHANGED <<shell, inputs, molly_only, USE_CLIPBOARD, clipboard_content, file_path,
                   WINDOW_ID, text, exit_status, reads>>

\* send_text_to_window of the two scripts (paste_to_vdi.py lines 324-349):
\* one key per character; the result of send_command_to_window is not looked
\* at, so the loop goes on after a failed key.  paste_to_vdi.py prints the
\* progress after every character.
LegacySendChar ==
    /\ pc = "l_char"
    /\ IF chars_sent >= Len(text)
       THEN /\ pc' = "l_end"
            /\ trace' = <<>>
            /\ UNCHANGED <<chars_sent, stdout, cmds>>
       ELSE /\ \E a \in LegacyActRcs :
                \E o \in LegacySends(WINDOW_ID, "key",
                                     <<convert_to_xdotool_key(text[chars_sent + 1])>>,
                                     CHUNK_SIZE(environ), pc) :
                    /\ cmds' = cmds \o o.cmds
                    /\ trace' = legacy_activate_window(WINDOW_ID, a) \o CmdsTrace(o.cmds)
            /\ chars_sent' = chars_sent + 1
            /\ stdout' = IF script = "paste_to_vdi.py"
                         THEN Append(stdout, Progress(chars_sent', Len(text)))
                         ELSE stdout
            /\ UNCHANGED pc
    /\ UNCHANGED <<shell, inputs, molly_only, USE_CLIPBOARD, clipboard_content, file_path,
                   WINDOW_ID, step_i, chunk_i, text, exit_status, reads>>

\* send_image (past_to_vdi.py lines 434-462): every line of the image data is
\* typed, line end included.
LegacySendImage ==
    /\ pc = "l_image"
    /\ LET lines == readlines(text) IN
       IF step_i > Len(lines)
       THEN /\ pc' = "l_end"
            /\ trace' = <<>>
            /\ UNCHANGED <<step_i, cmds>>
       ELSE /\ \E a \in LegacyActRcs :
                \E o \in LegacySends(WINDOW_ID, "type", lines[step_i], CHUNK_SIZE(environ), pc) :
                    /\ cmds' = cmds \o o.cmds
                    /\ trace' = legacy_activate_window(WINDOW_ID, a) \o CmdsTrace(o.cmds)
            /\ step_i' = step_i + 1
            /\ UNCHANGED pc
    /\ UNCHANGED <<shell, inputs, molly_only, USE_CLIPBOARD, clipboard_content, file_path,
                   WINDOW_ID, chunk_i, text, chars_sent, stdout, exit_status, reads>>

\* main, its last lines: paste_to_vdi.py prints PROGRESS:100.00 (line 592),
\* past_to_vdi.py prints that it has finished; both return.
LegacyEnd ==
    /\ pc = "l_end"
    /\ stdout' = IF script = "paste_to_vdi.py" THEN Append(stdout, Final100) ELSE stdout
    /\ Exit(0)
    /\ trace' = <<>>
    /\ UNCHANGED <<shell, inputs, molly_only, USE_CLIPBOARD, clipboard_content, file_path,
                   WINDOW_ID, step_i, chunk_i, text, chars_sent, cmds, reads>>

NextLegacy ==
    \/ LegacyInput
    \/ LegacyFindWindow
    \/ LegacyBranch
    \/ LegacyOpen
    \/ LegacySendLine
    \/ LegacySendChar
    \/ LegacySendImage
    \/ LegacyEnd

\* The runs of the two scripts: every set of mode flags on a one-character
\* clipboard, and for each single mode the contents that matter to it.
LegacyArgs(c, path, flags) == WithFlags(Args(c, path, "Title", ""), flags)
LegacyContents ==
    {<<>>, <<"h">>, <<"#">>, <<"h", TAB, "h">>, <<"h", NL, "h">>, <<NL, "h", NL>>,
     <<"#", "h", NL>>, <<TAB, "h", TAB>>}
LegacyJobs ==
    {Job(LegacyArgs(TRUE, "", flags), ConfigFile("ok", BaseCfg), NoEnv, <<"h">>, NoFile) :
        flags \in SUBSET ModeFlags}
    \cup {Job(LegacyArgs(TRUE, "", {f}), ConfigFile("ok", BaseCfg), NoEnv, p, NoFile) :
            f \in {"-s", "-t", "-i"}, p \in LegacyContents}
    \cup {Job(LegacyArgs(FALSE, "in.txt", {f}), ConfigFile("ok", BaseCfg), NoEnv, <<>>, File(TRUE, p)) :
            f \in {"-s", "-t", "-i"}, p \in LegacyContents}
    \cup {Job(LegacyArgs(FALSE, path, {f}), ConfigFile("ok", BaseCfg), NoEnv, <<>>, NoFile) :
            f \in {"-s", "-t", "-i"}, path \in {"", "in.txt"}}

InitLegacy ==
    /\ \E j \in LegacyJobs :
        /\ args = j.args
        /\ config_file = j.config_file
        /\ environ = j.environ
        /\ clipboard = j.clipboard
        /\ file = j.file
    /\ script \in LegacyScripts
    /\ pc = "l_start"
    /\ USE_CLIPBOARD = FALSE
    /\ clipboard_content = <<>>
    /\ file_path = ""
    /\ app_config = EmptyDict
    /\ WINDOW_ID = ""
    /\ spawned = FALSE
    /\ attempt = 0
    /\ step_i = 1
    /\ chunk_i = 0
    /\ text = <<>>
    /\ chars_sent = 0
    /\ send_result = "none"
    /\ stdout = <<>>
    /\ exit_status = -1
    /\ cmds = <<>>
    /\ trace = <<>>
    /\ touched = FALSE
    /\ search_calls = 0
    /\ reads = <<>>
    /\ ShellIdle

SpecLegacy == InitLegacy /\ [][NextLegacy]_vars

\* Both programs together: the orchestrator and the two command-line scripts.
InitScripts == Init \/ InitLegacy
NextScripts == Next \/ NextLegacy
SpecScripts == InitScripts /\ [][NextScripts]_vars

\* ------------------------------------------------ the claims on the modes
\* The mode a run is in: the configuration's for the orchestrator, the
\* flags' for the two scripts.
RunMode == IF script = "molly-macro.py" THEN CfgMode ELSE LegacyMode
\* The calls a spreadsheet transfer of these lines is to make.
RECURSIVE SheetCalls(_)
SheetCalls(lines) ==
    IF lines = <<>> THEN <<>>
    ELSE (IF IsDataLine(Head(lines)) THEN send_line_spreadsheet(Head(lines)) ELSE <<>>)
            \o SheetCalls(Tail(lines))
IsCommand(d) == ~(d.action = "type" /\ d.value = <<>>)
Calls(cs) == [i \in 1..Len(cs) |-> [action |-> cs[i].action, value |-> cs[i].value]]

\* C14: a spreadsheet-mode run that ends with status 0 and met no failing
\* command has dispatched, for each data line of its content in order, one
\* type per non-empty field, a Tab key between consecutive fields and one
\* Return key, and nothing for a blank line or a line starting with #.
C14_SpreadsheetLines ==
    (Done /\ exit_status = 0 /\ RunMode = "spreadsheet"
          /\ (script = "molly-macro.py" => ~CfgNoPayload)
          /\ \A i \in 1..Len(cmds) : cmds[i].rc = 0)
    => Calls(PayloadCmds)
        = SelectSeq(SheetCalls(IF args.c THEN splitlines(Payload) ELSE readlines(Payload)),
                    IsCommand)

FlagMode(f) ==
    CASE f = "-s" -> "spreadsheet" [] f = "-t" -> "text" [] f = "-i" -> "image" [] f = "-e" -> "code"

\* C16: a run given two or more of the flags -t, -s, -i, -e dispatches no
\* payload command, and a run given exactly one of them that dispatches a
\* payload command is in the mode that flag names.
C16_FlagsSelectMode ==
    /\ Cardinality(args.flags) >= 2 => PayloadCmds = <<>>
    /\ \A f \in ModeFlags :
        (args.flags = {f} /\ PayloadCmds # <<>>) => RunMode = FlagMode(f)

\* ------------------------------------------------ the step sequencer
\* The commands execute_steps is to issue for a list of steps: nothing for
\* launch_window (or an action the dispatcher does not know), the chunks of
\* a typed value, one command for any other step.
RECURSIVE StepCalls(_, _)
StepCalls(steps, size) ==
    IF steps = <<>> THEN <<>>
    ELSE LET st == Head(steps) IN
         (IF st.action = "launch_window" \/ generate_xdotool_command(st.action) = "ValueError"
          THEN <<>>
          ELSE IF st.action = "type"
          THEN [k \in 1..Len(Chunks(st.value, size)) |-> Types(Chunks(st.value, size)[k])]
          ELSE <<[action |-> st.action, value |-> st.value]>>)
         \o StepCalls(Tail(steps), size)
IsPrefix(s, t) == Len(s) <= Len(t) /\ \A i \in 1..Len(s) : s[i] = t[i]

\* C20: the commands of the open-steps phase are at every moment a prefix of
\* the configured steps' commands in list order, launch_window steps left
\* out; a failed command is the last one and ends the job with status 1; a
\* sequence that ran to its end has issued them all; and the log of issued
\* commands only grows.
C20_StepsInOrder ==
    ("open_steps" \in DOMAIN app_config) =>
        /\ IsPrefix(Calls(StepCmds), StepCalls(app_config["open_steps"], app_config["CHUNK_SIZE"]))
        /\ \A i \in 1..Len(StepCmds) :
            StepCmds[i].rc # 0 => (i = Len(StepCmds) /\ Done /\ exit_status = 1)
        /\ (StepsSucceeded /\ \A i \in 1..Len(app_config["open_steps"]) :
                generate_xdotool_command(app_config["open_steps"][i].action) # "ValueError"
                    \/ app_config["open_steps"][i].action = "launch_window")
            => Calls(StepCmds) = StepCalls(app_config["open_steps"], app_config["CHUNK_SIZE"])
C20_NothingUndone == IsPrefix(cmds, cmds')
\* C20 in one formula: the order, skip and stop conditions hold in every
\* state and no step removes an issued command.
C20_StepSequencer == []C20_StepsInOrder /\ [][C20_NothingUndone]_vars
\* The first of two steps failed: the job has ended with the second one
\* never dispatched.
C20_Witness ==
    /\ Done
    /\ exit_status = 1
    /\ "open_steps" \in DOMAIN app_config
    /\ Len(app_config["open_steps"]) = 2
    /\ app_config["open_steps"][2].action = "raise_window"
    /\ step_i = 1
    /\ Len(cmds) = 1
    /\ cmds[1].rc # 0

\* ---- DataTransferGUI: the running shell (src/data_transfer_gui.py) ----
\*
\* The Tk main loop runs one callback at a time: a button command, a callback
\* posted with after(0, ...), the update_progress timer, or the rest of a
\* callback that waits in a message box.  A message box is modal: while one is
\* open the buttons of the main window do not react, and timers and posted
\* callbacks still run.  Every run starts a run_process thread, which starts
\* the job and one handle_output thread per pipe.

\* A line of the job's output after strip(), as handle_output tells lines
\* apart: a PROGRESS: line with its value in hundredths, an ERROR: line, any
\* other line.  The job's stderr carries log lines only, which are other lines.
ProgressLine(v) == [kind |-> "PROGRESS", value |-> v]
ErrorLine == [kind |-> "ERROR", value |-> 0]
OtherLine == [kind |-> "other", value |-> 0]
JobLines == {ProgressLine(5000), ProgressLine(10000), ErrorLine, OtherLine}

\* Exit statuses of a job that ends by itself; 1 stands for every non-zero one.
ExitStatuses == {0, 1}
\* Popen.terminate() sends SIGTERM; the returncode of a killed job is -SIGTERM.
SIGTERM == 15

RECURSIVE WrittenUpTo(_)
WrittenUpTo(r) == IF r = 0 THEN 0 ELSE proc[r].written + WrittenUpTo(r - 1)

Alive(r) == proc[r].state \in {"running", "signalled"}

\* The run a new run_process thread is created for.
NewRun == CHOOSE r \in Runs : runner[r] = "none" /\ \A q \in Runs : runner[q] = "none" => r <= q

\* update_progress, the draining loop: every queued value is displayed in
\* turn, so the last one stays on the bar.
Drained(bar) ==
    IF progress_queue = <<>> THEN bar ELSE progress_queue[Len(progress_queue)]

\* reset_gui_state
reset_gui_state ==
    /\ run_button' = TRUE
    /\ stop_button' = FALSE
    /\ progress_bar' = 0

\* The Run button (command=self.run_script, the second definition of the
\* method): a message box and nothing else when the selection is not valid.
run_script ==
    /\ run_button
    /\ popups = <<>>
    /\ \E r \in Runs : runner[r] = "none"
    /\ \E valid \in BOOLEAN :
        IF ~valid
        THEN /\ popups' = Append(popups, "select")
             /\ UNCHANGED <<run_button, stop_button, progress_bar,
                            should_update_progress, progress_queue, timers, runner>>
        ELSE /\ run_button' = FALSE
             /\ stop_button' = TRUE
             /\ should_update_progress' = TRUE
             /\ progress_bar' = Drained(0)
             /\ progress_queue' = <<>>
             /\ timers' = timers + 1
             /\ runner' = [runner EXCEPT ![NewRun] = "popen"]
             /\ UNCHANGED popups
    /\ UNCHANGED <<job_vars, handled, transfer_completed, process, after_calls, proc,
                   out_pipe, reader, decided>>

\* The Stop button.  terminate() only sends the signal: the job dies later,
\* and a job that has ended already is left alone.
stop_script ==
    /\ stop_button
    /\ popups = <<>>
    /\ IF process # 0
       THEN /\ proc' = [proc EXCEPT ![process].state =
                            IF @ = "running" THEN "signalled" ELSE @]
            /\ run_button' = TRUE
            /\ stop_button' = FALSE
            /\ should_update_progress' = FALSE
       ELSE UNCHANGED <<proc, run_button, stop_button,
                        should_update_progress>>
    /\ UNCHANGED <<job_vars, handled, progress_bar, transfer_completed, process,
                   progress_queue, after_calls, popups, timers, out_pipe,
                   runner, reader, decided>>

\* update_progress called by its timer.  A call that finds the queue empty and
\* re-arms the timer changes nothing and is left out.
update_progress ==
    /\ timers > 0
    /\ progress_queue # <<>> \/ ~should_update_progress
    /\ progress_bar' = Drained(progress_bar)
    /\ progress_queue' = <<>>
    /\ timers' = IF should_update_progress THEN timers ELSE timers - 1
    /\ UNCHANGED <<job_vars, handled, run_button, stop_button, should_update_progress,
                   transfer_completed, process, after_calls, popups, proc,
                   out_pipe, runner, reader, decided>>

\* The main loop runs the oldest callback posted with after(0, ...):
\* show_error_popup and show_completion_popup open their message box,
\* script_finished posts show_completion_popup, and the lambda of the except
\* clause reads the name e, which is unbound once the clause has ended, so it
\* raises and shows nothing.
Callback ==
    /\ after_calls # <<>>
    /\ LET call == Head(after_calls) IN
        /\ after_calls' = IF call = "script_finished"
                          THEN Append(Tail(after_calls), "show_completion_popup")
                          ELSE Tail(after_calls)
        /\ popups' = CASE call = "show_error_popup" -> Append(popups, "error")
                       [] call = "show_completion_popup" -> Append(popups, "success")
                       [] OTHER -> popups
        /\ should_update_progress' =
               IF call = "script_finished" THEN FALSE ELSE should_update_progress
    /\ UNCHANGED <<job_vars, handled, run_button, stop_button, progress_bar,
                   transfer_completed, process, progress_queue, timers, proc,
                   out_pipe, runner, reader, decided>>

\* The user closes the newest message box; show_error_popup and
\* show_completion_popup then go on to reset_gui_state.
Dismiss ==
    /\ popups # <<>>
    /\ popups' = SubSeq(popups, 1, Len(popups) - 1)
    /\ IF popups[Len(popups)] \in {"error", "success"}
       THEN reset_gui_state
       ELSE UNCHANGED <<run_button, stop_button, progress_bar>>
    /\ UNCHANGED <<job_vars, handled, should_update_progress, transfer_completed, process,
                   progress_queue, after_calls, timers, proc, out_pipe, runner,
                   reader, decided>>

\* run_process: Popen and the start of both handle_output threads; when Popen
\* raises, the except clause posts its lambda.
Popen(r) ==
    /\ runner[r] = "popen"
    /\ \E started \in BOOLEAN :
        IF started
        THEN /\ process' = r
             /\ proc' = [proc EXCEPT ![r].state = "running"]
             /\ reader' = [reader EXCEPT ![r] = [p \in Pipes |-> "start"]]
             /\ runner' = [runner EXCEPT ![r] = "wait"]
             /\ UNCHANGED after_calls
        ELSE /\ after_calls' = Append(after_calls, "unbound_e")
             /\ runner' = [runner EXCEPT ![r] = "finally"]
             /\ UNCHANGED <<process, proc, reader>>
    /\ UNCHANGED <<job_vars, handled, run_button, stop_button, progress_bar,
                   should_update_progress, transfer_completed, progress_queue,
                   popups, timers, out_pipe, decided>>

\* handle_output, the end of the loop: readline() returns '' once the job has
\* ended and the pipe is empty.
AtEof(r, p) ==
    /\ reader[r][p] = "read"
    /\ proc[r].state = "exited"
    /\ p = "stdout" => out_pipe[r] = <<>>

\* run_process after wait() and both join(): the callback it posts.
Posted(completed) ==
    IF completed THEN "script_finished" ELSE "show_error_popup"

run_process_end(r) ==
    /\ runner[r] = "wait"
    /\ proc[r].state = "exited"
    /\ \A p \in Pipes : reader[r][p] = "done" \/ AtEof(r, p)
    /\ reader' = [reader EXCEPT ![r] = [p \in Pipes |-> "done"]]
    /\ decided' = [decided EXCEPT ![r] = Posted(transfer_completed)]
    /\ after_calls' = Append(after_calls, Posted(transfer_completed))
    /\ runner' = [runner EXCEPT ![r] = "finally"]
    /\ UNCHANGED <<job_vars, handled, run_button, stop_button, progress_bar,
                   should_update_progress, transfer_completed, process,
                   progress_queue, popups, timers, proc, out_pipe>>

\* run_process, the finally clause
run_process_finally(r) ==
    /\ runner[r] = "finally"
    /\ should_update_progress' = FALSE
    /\ runner' = [runner EXCEPT ![r] = "done"]
    /\ UNCHANGED <<job_vars, handled, run_button, stop_button, progress_bar,
                   transfer_completed, process, progress_queue, after_calls,
                   popups, timers, proc, out_pipe, reader, decided>>

\* handle_output, its first statement
handle_output_start(r, p) ==
    /\ reader[r][p] = "start"
    /\ transfer_completed' = FALSE
    /\ reader' = [reader EXCEPT ![r][p] = "read"]
    /\ UNCHANGED <<job_vars, handled, run_button, stop_button, progress_bar,
                   should_update_progress, process, progress_queue, after_calls,
                   popups, timers, proc, out_pipe, runner, decided>>

\* handle_output, the body of the loop for one line: the values it puts in the
\* queue, whether it sets transfer_completed, the callbacks it posts, and
\* where the thread goes next.
Handled_ErrorEndsThread(line) ==
    [put |-> IF line.kind = "PROGRESS" THEN <<line.value>> ELSE <<>>,
     completed |-> line.kind = "PROGRESS" /\ line.value >= 10000,
     posted |-> IF line.kind = "ERROR" THEN <<"show_error_popup">> ELSE <<>>,
     next |-> IF line.kind = "ERROR" THEN "done" ELSE "read"]

Handled(line) ==
    [put |-> IF line.kind = "PROGRESS" THEN <<line.value>> ELSE <<>>,
     completed |-> line.kind = "PROGRESS" /\ line.value >= 10000,
     posted |-> IF line.kind = "ERROR" THEN <<"show_error_popup">> ELSE <<>>,
     next |-> "read"]

\* What the history keeps of a handled line: its kind, and "COMPLETE" for a
\* PROGRESS line whose value is 100 or more (line 525).
Tag(line) ==
    IF line.kind = "PROGRESS" /\ line.value >= 10000 THEN "COMPLETE" ELSE line.kind

handle_output_line(r) ==
    /\ reader[r]["stdout"] = "read"
    /\ out_pipe[r] # <<>>
    /\ LET h == Handled(Head(out_pipe[r])) IN
        /\ progress_queue' = progress_queue \o h.put
        /\ transfer_completed' = IF h.completed THEN TRUE ELSE transfer_completed
        /\ after_calls' = after_calls \o h.posted
        /\ reader' = [reader EXCEPT ![r]["stdout"] = h.next]
    /\ handled' = [handled EXCEPT ![r] = Append(@, Tag(Head(out_pipe[r])))]
    /\ out_pipe' = [out_pipe EXCEPT ![r] = Tail(@)]
    /\ UNCHANGED <<job_vars, run_button, stop_button, progress_bar,
                   should_update_progress, process, popups, timers, proc,
                   runner, decided>>

\* The job writes a line to its stdout.
JobWrites(r) ==
    /\ proc[r].state = "running"
    /\ WrittenUpTo(MaxRuns) < MaxLines
    /\ \E line \in JobLines : out_pipe' = [out_pipe EXCEPT ![r] = Append(@, line)]
    /\ proc' = [proc EXCEPT ![r].written = @ + 1]
    /\ UNCHANGED <<job_vars, handled, run_button, stop_button, progress_bar,
                   should_update_progress, transfer_completed, process,
                   progress_queue, after_calls, popups, timers, runner, reader,
                   decided>>

\* The job ends by itself.
JobExits(r) ==
    /\ proc[r].state = "running"
    /\ \E status \in ExitStatuses :
        proc' = [proc EXCEPT ![r].state = "exited", ![r].returncode = status]
    /\ UNCHANGED <<job_vars, handled, run_button, stop_button, progress_bar,
                   should_update_progress, transfer_completed, process,
                   progress_queue, after_calls, popups, timers, out_pipe,
                   runner, reader, decided>>

\* The signal of terminate() ends the job.
JobTerminated(r) ==
    /\ proc[r].state = "signalled"
    /\ proc' = [proc EXCEPT ![r].state = "exited", ![r].returncode = -SIGTERM]
    /\ UNCHANGED <<job_vars, handled, run_button, stop_button, progress_bar,
                   should_update_progress, transfer_completed, process,
                   progress_queue, after_calls, popups, timers, out_pipe,
                   runner, reader, decided>>

NextGui ==
    \/ run_script
    \/ stop_script
    \/ update_progress
    \/ Callback
    \/ Dismiss
    \/ \E r \in Runs : Popen(r)
    \/ \E r \in Runs : run_process_end(r)
    \/ \E r \in Runs : run_process_finally(r)
    \/ \E r \in Runs, p \in Pipes : handle_output_start(r, p)
    \/ \E r \in Runs : handle_output_line(r)
    \/ \E r \in Runs : JobWrites(r)
    \/ \E r \in Runs : JobExits(r)
    \/ \E r \in Runs : JobTerminated(r)

\* The GUI with the command line of one job; the job itself is the process
\* above, which writes any lines and ends with any status.
GuiJobs ==
    {JobOf(ClipH, "0x1", "app", ConfigFile("ok", Cfg("remote", FALSE, TRUE, OneKey, Has(FALSE), "text", "1", TRUE)), NoEnv)}

InitGui == InitOf(GuiJobs)

SpecGui == InitGui /\ [][NextGui]_vars

\* ---- Claims about the GUI shell ----

\* The run_process threads that have posted their callback after the job ended.
Reported(r) == decided[r] # "none"

\* C17: whenever the job process of a run has exited with a non-zero status,
\* the callback run_process posts for that run is the error popup and never
\* the completion path, whatever PROGRESS lines were read before.
C17_NonZeroExitShowsError ==
    \A r \in Runs :
        (proc[r].state = "exited" /\ proc[r].returncode # 0 /\ Reported(r))
            => decided[r] = "show_error_popup"

\* C18: at most one job process is alive at any time.
C18_OneJobAlive == Cardinality({r \in Runs : Alive(r)}) <= 1

\* The stdout thread of run r handles a line of the given kind in this step.
Reads(r, kind) ==
    \E tag \in {kind} \cup (IF kind = "PROGRESS" THEN {"COMPLETE"} ELSE {}) :
        handled'[r] = Append(handled[r], tag)
ReadError(r) == \E i \in 1..Len(handled[r]) : handled[r][i] = "ERROR"
\* An error message box opens or is closed in this step.
ErrorBoxStep ==
    \/ popups' = Append(popups, "error")
    \/ popups # <<>> /\ popups[Len(popups)] = "error"
         /\ popups' = SubSeq(popups, 1, Len(popups) - 1)

\* C19 (step by step): handling an ERROR: line posts the error popup and
\* leaves every job process, the polling of the queue and the reading thread
\* as they were, the thread staying in its loop; the popup, opened or closed,
\* touches neither the processes, the pipes, the threads, the queue nor the
\* polling; a PROGRESS line handled after an ERROR: line is put in the queue;
\* and a value leaves the queue only when the whole queue is drained onto the
\* progress bar.
C19_Step ==
    /\ \A r \in Runs :
        /\ Reads(r, "ERROR") =>
            /\ after_calls' = Append(after_calls, "show_error_popup")
            /\ reader'[r]["stdout"] = "read"
            /\ out_pipe'[r] = Tail(out_pipe[r])
            /\ UNCHANGED <<proc, should_update_progress, timers, progress_queue>>
        /\ (Reads(r, "PROGRESS") /\ ReadError(r)) =>
            progress_queue' = Append(progress_queue, Head(out_pipe[r]).value)
    /\ ErrorBoxStep =>
        UNCHANGED <<proc, out_pipe, runner, reader, progress_queue,
                    should_update_progress, timers>>
    /\ (progress_queue # <<>> /\ ~ \E v \in {5000, 10000} :
                                      progress_queue' = Append(progress_queue, v))
        => (progress_queue' = progress_queue
            \/ (progress_queue' = <<>>
                /\ progress_bar' = progress_queue[Len(progress_queue)]))

\* C19: an ERROR: line read from the job's output is surfaced as a popup that
\* is not fatal: the job is not terminated by it, the reader keeps consuming
\* later lines, and the PROGRESS lines that follow are queued and displayed.
C19_ErrorLineNotFatal == [][C19_Step]_vars

\* An ERROR: line, then a PROGRESS line were handled; the error box is open,
\* the job runs, the thread reads on and the bar shows the value.
C19_Witness ==
    /\ handled[1] = <<"ERROR", "PROGRESS">>
    /\ popups = <<"error">>
    /\ proc[1].state = "running"
    /\ reader[1]["stdout"] = "read"
    /\ progress_bar = 5000

\* ---- Claims about the sender, the dispatcher, the activator, the locator
\* ---- and the key mapper

\* The key commands of the character loop of send_text_to_window.
IsSenderKey(e) == e.phase \in {"send_char", "l_char"}
SenderKeys == SelectSeq(cmds, IsSenderKey)

\* C21: the text sender stops at the first character whose dispatch fails: a
\* failed key command is the last one of the send (no later character, no
\* retry, no skip-and-continue), no more keys are dispatched than the text has
\* characters, and the sender has then returned False.
C21_FirstFailureEndsSend ==
    /\ \A i \in 1..Len(SenderKeys) : SenderKeys[i].rc # 0 => i = Len(SenderKeys)
    /\ Len(SenderKeys) <= Len(text)
    /\ (script = "molly-macro.py" /\ pc \in {"finish", "done"}
            /\ \E i \in 1..Len(SenderKeys) : SenderKeys[i].rc # 0)
        => send_result = "False"

\* The events send_text_to_window has written: what stdout holds before main
\* adds its own final line.
SenderEvents == IF Done /\ exit_status = 0 THEN SubSeq(stdout, 1, Len(stdout) - 1) ELSE stdout
\* The characters after which an event is due, among the first n sent.
DueAfter(n, N) == {k \in 1..n : k % 100 = 0 \/ k = N}
\* v is k / N * 100 rounded to two decimals, in hundredths.
IsRounded(v, k, N) == 2 * (v * N - k * 10000) <= N /\ 2 * (k * 10000 - v * N) <= N

\* C22: while a text of N > 0 characters is sent, the events written so far
\* are, in order, one for each k among the characters sent with k a multiple
\* of 100 or k = N, each with the value k / N * 100 rounded to two decimals;
\* when every character was sent the last event is exactly 100.00.
C22_ProgressEvents ==
    (pc = "send_char" \/ send_result # "none")
    => LET N == Len(text)
           due == DueAfter(chars_sent, N)
       IN  N > 0 =>
           /\ Len(SenderEvents) = Cardinality(due)
           /\ \A i \in 1..Len(SenderEvents) :
                \E k \in due :
                    /\ Cardinality({j \in due : j <= k}) = i
                    /\ IsRounded(SenderEvents[i], k, N)
           /\ (send_result = "True" =>
                 SenderEvents # <<>> /\ SenderEvents[Len(SenderEvents)] = 10000)
\* All 201 characters were sent: events after the 100th, the 200th and the last.
C22_Witness ==
    /\ send_result = "True"
    /\ Len(text) = 2 * ProgressEvery + LongExtra
    /\ Len(SenderEvents) = 3
    /\ SenderEvents[1] = 4975

\* C23 (the step): called with an empty text, the sender returns False and
\* has issued no command of the utility and written no event.
C23_Step ==
    (pc = "send" /\ text = <<>>)
    => /\ send_result' = "False"
       /\ pc' = "finish"
       /\ trace' = <<>>
       /\ cmds' = cmds
       /\ touched' = touched
       /\ stdout' = stdout

\* C23: sending an empty text is reported before any dispatch attempt: the
\* sender returns False having issued no automation command at all (no
\* activation, focus, key or type) and no progress event.
C23_EmptyTextRefused == [][C23_Step]_vars
\* A text-mode job on an empty clipboard after the sender has returned.
C23_Witness ==
    /\ pc = "finish"
    /\ CfgMode = "text"
    /\ args.c /\ clipboard = <<>>
    /\ send_result = "False"
    /\ SenderKeys = <<>>

ActivationCmds == {"windowactivate", "windowmap", "sleep", "windowfocus", "windowraise"}

\* C24 (the step): a step that dispatches a key or type command has first
\* activated the same window, and the command comes directly after the focus
\* and raise calls that end the activation; a typed value goes out one chunk
\* per step, so this holds before each chunk.
C24_Step ==
    (script = "molly-macro.py" /\ cmds' # cmds)
    => LET d == cmds'[Len(cmds')] IN
       d.action \in {"key", "type"} =>
       \E i \in 3..Len(trace') :
            /\ trace'[i].cmd = d.action /\ trace'[i].arg = d.value /\ trace'[i].use = "check"
            /\ trace'[1].cmd = "windowactivate" /\ trace'[1].arg = <<d.window>>
            /\ trace'[i - 2].cmd = "windowfocus" /\ trace'[i - 2].arg = <<d.window>>
            /\ trace'[i - 1].cmd = "windowraise" /\ trace'[i - 1].arg = <<d.window>>
            /\ \A j \in 1..(i - 1) : trace'[j].cmd \in ActivationCmds
            /\ \A j \in (i + 1)..Len(trace') : trace'[j].cmd = "sleep"

\* C24: every type or key command sent to the utility is immediately preceded
\* by an activation of the same window (for type, before each chunk), and a
\* dispatch whose activation signals failure does not attempt the command.
C24_ActivationBeforeCommand == [][C24_Step]_vars
\* The second chunk of a typed step has gone out.
C24_Witness ==
    /\ pc = "steps"
    /\ chunk_i = 2
    /\ Len(cmds) = 2
    /\ cmds[2].action = "type" /\ cmds[2].value = <<"b">>
    /\ \E i \in 1..Len(trace) : trace[i].cmd = "type"

\* C25: when the utility exits non-zero for a key, type or raise_window
\* command, the dispatch reports failure to its caller (the step sequencer
\* makes the job exit 1, the sender returns False), the command is not tried
\* again and nothing is sent after it, so no chunk follows a failed chunk.
C25_FailedCommandEndsDispatch ==
    script = "molly-macro.py" =>
    \A i \in 1..Len(cmds) :
        cmds[i].rc # 0 =>
            /\ i = Len(cmds)
            /\ cmds[i].phase = "steps" => (Done /\ exit_status = 1)
            /\ cmds[i].phase = "send_char" =>
                    (pc \in {"finish", "done"} /\ send_result = "False")
\* The first chunk of the typed step "abc" has failed: one command, exit 1.
C25_Witness ==
    /\ Done /\ exit_status = 1
    /\ Len(cmds) = 1
    /\ cmds[1].action = "type" /\ cmds[1].rc # 0 /\ cmds[1].value = <<"a">>
    /\ step_i = 1

\* The commands a step has added, and the chunk size the script is run with.
NewCmds == SubSeq(cmds', Len(cmds) + 1, Len(cmds'))
ConfiguredChunk ==
    IF script = "molly-macro.py" THEN app_config["CHUNK_SIZE"] ELSE CHUNK_SIZE(environ)
RECURSIVE Flatten(_)
Flatten(ss) == IF ss = <<>> THEN <<>> ELSE ss[1].value \o Flatten(Tail(ss))
IsType(e) == e.action = "type"
\* The typed value a step of the open phase is about.
OpenValue ==
    IF script = "molly-macro.py" THEN app_config["open_steps"][step_i].value
    ELSE OpenCmds(LegacyApp)[step_i].value
\* Two type commands among the step's calls with no type command between them
\* have a DELAY_BETWEEN_CHUNKS wait between them.
WaitBetweenChunks(tr) ==
    \A i, j \in 1..Len(tr) :
        (i < j /\ tr[i].cmd = "type" /\ tr[j].cmd = "type"
               /\ \A k \in (i + 1)..(j - 1) : tr[k].cmd # "type")
        => \E k \in (i + 1)..(j - 1) : tr[k] = Sleep("DELAY_BETWEEN_CHUNKS")

\* C26: a type dispatch sends its value as consecutive chunks of the
\* configured CHUNK_SIZE, each a command of its own and in order: no chunk is
\* longer than CHUNK_SIZE, a chunk that is followed by another has exactly
\* CHUNK_SIZE characters, the chunks of a dispatch that went through make up
\* the value, and a DELAY_BETWEEN_CHUNKS wait lies between consecutive chunks.
C26_Step ==
    (NewCmds # <<>> /\ \A i \in 1..Len(NewCmds) : IsType(NewCmds[i]))
    => /\ \A i \in 1..Len(NewCmds) :
            /\ Len(NewCmds[i].value) <= ConfiguredChunk
            /\ i < Len(NewCmds) => Len(NewCmds[i].value) = ConfiguredChunk
       /\ WaitBetweenChunks(trace')
       /\ (script = "molly-macro.py" /\ pc' = "steps" /\ step_i' = step_i)
            => /\ Len(NewCmds[1].value) = ConfiguredChunk
               /\ trace'[Len(trace')] = Sleep("DELAY_BETWEEN_CHUNKS")
       /\ (pc \in {"steps", "l_open"} /\ step_i' # step_i
                /\ \A i \in 1..Len(cmds') : cmds'[i].rc = 0
                /\ Len(cmds') >= (Len(OpenValue) + ConfiguredChunk - 1) \div ConfiguredChunk)
            => LET n == (Len(OpenValue) + ConfiguredChunk - 1) \div ConfiguredChunk
               IN  Flatten(SubSeq(cmds', Len(cmds') - n + 1, Len(cmds'))) = OpenValue
C26_ChunkedType == [][C26_Step]_vars

\* The calls tr[i..] begin with the commands cs, all for the window of tr[i].
Follows(tr, i, cs) ==
    /\ i + Len(cs) - 1 <= Len(tr)
    /\ \A k \in 1..Len(cs) :
          /\ tr[i + k - 1].cmd = cs[k]
          /\ cs[k] # "sleep" => tr[i + k - 1].arg = tr[i].arg
          /\ cs[k] = "sleep" => tr[i + k - 1].arg = <<"0.5">>
\* A windowactivate that comes two calls after a windowmap is the retry.
IsRetry(tr, i) == i > 3 /\ tr[i - 2].cmd = "windowmap"
ActivationShape(tr) ==
    /\ \A i \in 1..Len(tr) :
          tr[i].cmd = "windowactivate" =>
              IF IsRetry(tr, i)
              THEN /\ Follows(tr, i - 3, <<"windowactivate", "windowmap", "sleep",
                                           "windowactivate", "windowfocus", "windowraise">>)
                   /\ tr[i - 3].rc # 0
                   /\ ~IsRetry(tr, i - 3)
              ELSE IF tr[i].rc = 0
              THEN Follows(tr, i, <<"windowactivate", "windowfocus", "windowraise">>)
              ELSE Follows(tr, i, <<"windowactivate", "windowmap", "sleep",
                                    "windowactivate", "windowfocus", "windowraise">>)
    /\ \A i \in 1..Len(tr) :
          tr[i].cmd = "windowmap" =>
              i > 1 /\ tr[i - 1].cmd = "windowactivate" /\ tr[i - 1].rc # 0
                    /\ ~IsRetry(tr, i - 1)

\* C27: one activate call issues one windowactivate and, only when that one
\* reported failure, a windowmap, the 0.5 s wait and one more windowactivate,
\* never a third; whatever the exit statuses were, one windowfocus and then
\* one windowraise for the same window follow.
C27_ActivationSequence ==
    /\ script = "molly-macro.py" => ActivationShape(trace)
    /\ \A r \in ActRcs :
          LET tr == activate_window("0x1", r).trace
          IN  /\ ActivationShape(tr)
              /\ Len(SelectSeq(tr, LAMBDA e : e.cmd = "windowactivate")) <= 2
              /\ Len(SelectSeq(tr, LAMBDA e : e.cmd = "windowfocus")) = 1
              /\ Len(SelectSeq(tr, LAMBDA e : e.cmd = "windowraise")) = 1
              /\ tr[Len(tr)].cmd = "windowraise"
C27_Witness ==
    /\ script = "molly-macro.py"
    /\ pc = "send_focus"
    /\ Len(trace) = 6
    /\ trace[1].cmd = "windowactivate" /\ trace[1].rc # 0
    /\ trace[4].cmd = "windowactivate"
    /\ trace[6].cmd = "windowraise"

\* The ids one search call listed whose windows match, in the order listed.
\* launch_application compares each title itself; find_window_id of the two
\* older scripts takes every id the search prints.
MatchingIds(e) ==
    IF script = "molly-macro.py"
    THEN LET n == (Len(e.arg) - 1) \div 2
             ids == [k \in 1..n |-> e.arg[2 * k]]
             hit == {k \in 1..n : e.arg[2 * k + 1] = "match"}
         IN  SelectSeq([k \in 1..n |-> IF k \in hit THEN ids[k] ELSE ""], LAMBDA x : x # "")
    ELSE IF e.rc = 0 THEN Tail(e.arg) ELSE <<>>
\* The state right after the search that found the target window.
JustFound == pc \in {"steps", "l_mode"} /\ \E i \in 1..Len(trace) : trace[i].cmd = "search"

\* C29: when the search that finds the target window lists several
\* matching windows, the window kept is the last one of the list.
C29_LastMatchWins ==
    JustFound =>
        \A i \in 1..Len(trace) :
            (trace[i].cmd = "search" /\ MatchingIds(trace[i]) # <<>>)
            => WINDOW_ID = MatchingIds(trace[i])[Len(MatchingIds(trace[i]))]

\* The call trace[i] is a windowfocus or windowraise made by an activation or
\* ahead of the text send, not the command of a raise_window step (that one
\* comes last, right after the windowraise of its own activation).
IsBestEffort(i) ==
    /\ trace[i].cmd \in {"windowfocus", "windowraise"}
    /\ ~(/\ trace[i].cmd = "windowraise"
         /\ i = Len(trace) /\ i > 1
         /\ trace[i - 1].cmd = "windowraise")

\* C28: a non-zero exit of a windowfocus or windowraise call made around
\* activation or before the text send is never propagated: the job does not
\* end with a failure status because of it and the sender does not report
\* failure.
C28_FocusRaiseNeverFatal ==
    script = "molly-macro.py" =>
    \A i \in 1..Len(trace) :
        (IsBestEffort(i) /\ trace[i].rc # 0)
        => /\ exit_status \in {-1, 0}
           /\ send_result # "False"

\* ---- the Key Mapper on its own (src/molly-macro.py, lines 126-146) ----

\* Longest text whose characters are converted one after the other.
MaxKeyLen == 2
\* Characters the table does not hold: letters, a digit and the tab.
PlainChars == {"h", "A", "0", "\t"}
KeyChars == DOMAIN mapping \cup PlainChars
KeyTexts == SeqsUpTo(KeyChars, MaxKeyLen) \ {<<>>}

InitKeys ==
    /\ \E j \in GuiJobs :
        /\ args = j.args
        /\ config_file = j.config_file
        /\ environ = j.environ
        /\ clipboard = j.clipboard
        /\ file = j.file
    /\ script = "molly-macro.py"
    /\ pc = "keys"
    /\ USE_CLIPBOARD = FALSE
    /\ clipboard_content = <<>>
    /\ file_path = ""
    /\ app_config = EmptyDict
    /\ WINDOW_ID = ""
    /\ spawned = FALSE
    /\ attempt = 0
    /\ step_i = 1
    /\ chunk_i = 0
    /\ text \in KeyTexts
    /\ chars_sent = 0
    /\ send_result = "none"
    /\ stdout = <<>>
    /\ exit_status = -1
    /\ cmds = <<>>
    /\ trace = <<>>
    /\ touched = FALSE
    /\ search_calls = 0
    /\ reads = <<>>
    /\ ShellIdle

\* One call of convert_to_xdotool_key, on the next character of the text;
\* trace collects the key names returned, one per character.
ConvertChar ==
    /\ pc = "keys"
    /\ chars_sent < Len(text)
    /\ chars_sent' = chars_sent + 1
    /\ trace' = Append(trace, Cmd("key", <<convert_to_xdotool_key(text[chars_sent + 1])>>,
                                  0, "ignored"))
    /\ UNCHANGED <<shell, inputs, pc, USE_CLIPBOARD, clipboard_content, file_path,
                   app_config, WINDOW_ID, spawned, attempt, step_i, chunk_i, text,
                   send_result, stdout, exit_status, cmds, touched, search_calls, reads>>

NextKeys == ConvertChar
SpecKeys == InitKeys /\ [][NextKeys]_vars

\* The key name returned for the i-th character of the text.
KeyNameAt(i) == trace[i].arg[1]

\* C30: convert_to_xdotool_key returns a key name for every character and
\* never fails: a character outside the table comes back unchanged, a
\* character of the table comes back as a name that is not the character
\* and not an error, the same character gives the same name each time, and
\* the newline gives Return.
C30_KeyMapperTotal ==
    pc = "keys" =>
        /\ Len(trace) = chars_sent
        /\ \A i \in 1..Len(trace) :
              /\ KeyNameAt(i) # "KeyError"
              /\ text[i] \notin DOMAIN mapping => KeyNameAt(i) = text[i]
              /\ text[i] \in DOMAIN mapping => KeyNameAt(i) # text[i]
              /\ text[i] = NL => KeyNameAt(i) = "Return"
              /\ \A j \in 1..Len(trace) : text[j] = text[i] => KeyNameAt(j) = KeyNameAt(i)
C30_Witness ==
    /\ pc = "keys"
    /\ text = <<NL, "h">>
    /\ chars_sent = 2
    /\ KeyNameAt(1) = "Return" /\ KeyNameAt(2) = "h"

\* The calls of the activation a step begins with: three when the first
\* windowactivate exits 0, six otherwise.
ActivationOf(tr) ==
    IF tr # <<>> /\ tr[1].cmd = "windowactivate"
    THEN SubSeq(tr, 1, Min(Len(tr), IF tr[1].rc = 0 THEN 3 ELSE 6))
    ELSE <<>>
ActivatedAt(tr) == ActivationOf(tr) # <<>> /\ tr[1].rc = 0

\* C31: activating a window again after an activation of the same window
\* went through gives the same result and the same calls: windowactivate,
\* windowfocus, windowraise, without windowmap or a second windowactivate,
\* and the activation reports success and raises nothing: its caller goes on
\* to the command or to the text send.
C31_Step ==
    (/\ script = "molly-macro.py"
     /\ ActivatedAt(trace) /\ ActivatedAt(trace')
     /\ trace'[1].arg = trace[1].arg)
    => /\ ActivationOf(trace') = ActivationOf(trace)
       /\ Len(ActivationOf(trace')) = 3
       /\ ActivationOf(trace')[2].cmd = "windowfocus"
       /\ ActivationOf(trace')[3].cmd = "windowraise"
       /\ pc = "send" => pc' = "send_focus"
       /\ pc \in {"steps", "send_char"} =>
              (Len(trace') >= 4 /\ trace'[4].cmd \in {"key", "type", "windowraise"})
C34_Step ==
    script = "molly-macro.py" =>
    /\ (pc \in {"steps", "send_char"} /\ ActivationOf(trace') # <<>>)
        => LET n == Len(ActivationOf(trace')) IN
           /\ Len(trace') > n
           /\ trace'[n + 1].use = "check"
           /\ trace'[n + 1].cmd \in {"key", "type", "windowraise"}
           /\ Len(cmds') = Len(cmds) + 1
    /\ (pc = "send" /\ ActivationOf(trace') # <<>>) => pc' = "send_focus"
SupportedActions == {"key", "type", "raise_window", "launch_window"}
AtUnsupportedStep ==
    /\ script = "molly-macro.py"
    /\ "open_steps" \in DOMAIN app_config
    /\ step_i <= Len(app_config["open_steps"])
    /\ app_config["open_steps"][step_i].action \notin SupportedActions

\* C35: an open step with an unsupported action is not reported as a failed
\* step: the job ends there with exit status 7, not 1, without a call for
\* that step; the commands of the steps before it have been issued and
\* succeeded, and no later step and no payload is dispatched.
C35_Step ==
    (pc = "steps" /\ AtUnsupportedStep)
    => /\ pc' = "done" /\ exit_status' = 7
       /\ cmds' = cmds /\ trace' = <<>> /\ touched' = touched
C35_UnsupportedActionEscapes ==
    /\ [][C35_Step]_vars
    /\ []((pc = "done" /\ AtUnsupportedStep /\ WINDOW_ID # "")
            => /\ exit_status = 7
               /\ \A i \in 1..Len(cmds) : cmds[i].phase = "steps" /\ cmds[i].rc = 0
               /\ text = <<>> /\ send_result = "none" /\ stdout = <<>>)
C35_Witness ==
    /\ pc = "done" /\ exit_status = 7
    /\ AtUnsupportedStep
    /\ step_i = 2
    /\ Len(cmds) = 1 /\ cmds[1].rc = 0

\* C36: the mode is looked at only after the open steps: a job ends with
\* exit status 6 only from the payload decision, with every open step
\* dispatched and succeeded, no_payload not set and a missing or unknown
\* mode; and a job with no_payload set that gets through its steps ends with
\* exit status 0 whatever its mode is.
C36_Step ==
    script = "molly-macro.py" =>
    /\ (exit_status' = 6 /\ exit_status # 6)
        => /\ pc = "decide"
           /\ "open_steps" \in DOMAIN app_config
           /\ step_i = Len(app_config["open_steps"]) + 1
           /\ Calls(StepCmds) = StepCalls(app_config["open_steps"], app_config["CHUNK_SIZE"])
           /\ \A i \in 1..Len(cmds) : cmds[i].rc = 0
           /\ cmds' = cmds
           /\ ~CfgNoPayload
           /\ CfgMode \notin ValidModes
    /\ (pc = "decide" /\ CfgNoPayload) => (pc' = "done" /\ exit_status' = 0)
    /\ (pc = "decide" /\ ~CfgNoPayload /\ CfgMode \notin ValidModes)
        => (pc' = "done" /\ exit_status' = 6)
C36_ModeCheckedAfterSteps == [][C36_Step]_vars
C36_Witness ==
    /\ Done /\ exit_status = 6
    /\ CfgMode = "bogus"
    /\ Len(cmds) = 1 /\ cmds[1].phase = "steps" /\ cmds[1].rc = 0

\* ---- The orchestrator under fair scheduling ----
\*
\* The job is one sequential process: while some statement of main() can run
\* it does run, because every call of the utility, of the clipboard tool and
\* every sleep returns.  That is weak fairness of its next-state relation.
SpecLive == Init /\ [][Next]_vars /\ WF_vars(Next)

\* How far each loop of the job has got, never beyond its range.
LoopsInRange ==
    /\ attempt <= MaxAttempts /\ search_calls <= MaxAttempts
    /\ ("open_steps" \in DOMAIN app_config /\ pc = "steps")
        => /\ step_i <= Len(app_config["open_steps"]) + 1
           /\ step_i <= Len(app_config["open_steps"])
                => chunk_i <= Len(app_config["open_steps"][step_i].value)
    /\ chars_sent <= Len(text)

\* C33: every job ends: whatever the configuration, the payload and the exit
\* statuses of the utility calls are, main() reaches its exit, with the
\* status of a completed or of an aborted job, and no loop counter leaves
\* the range of its loop.
C33_JobTerminates ==
    /\ <>(pc = "done" /\ exit_status \in {0, 1, 6, 7})
    /\ []LoopsInRange
C33_Witness ==
    /\ pc = "done" /\ exit_status = 1
    /\ attempt = MaxAttempts
    /\ search_calls = MaxAttempts

\* ---- More claims about the GUI shell ----

\* Popups that report an outcome and reset the controls when closed, open or
\* about to be opened by a posted callback.
TerminalPopups ==
    Len(SelectSeq(popups, LAMBDA p : p \in {"error", "success"}))
    + Len(SelectSeq(after_calls, LAMBDA c : c \in {"show_error_popup", "script_finished",
                                                     "show_completion_popup"}))
RunsStarted == Cardinality({r \in Runs : runner[r] # "none"})

\* C32 (what it says about the number of popups): once the jobs of all runs
\* started have exited and been reported, each run has exactly one terminal
\* popup, so the terminal popups open or posted do not outnumber the runs.
C32_OnePopupPerRun ==
    (\A r \in Runs : runner[r] # "none" => (proc[r].state = "exited" /\ Reported(r)))
        => TerminalPopups <= RunsStarted

\* The stdout thread of run r has handled a PROGRESS line of 100 or more.
ReadComplete(r) == \E i \in 1..Len(handled[r]) : handled[r][i] = "COMPLETE"

\* C37: a run whose job wrote a PROGRESS line of 100 or more to its stdout,
\* had it handled, and then ended by itself is reported as completed.
C37_CompletedRunReported ==
    \A r \in Runs :
        (Reported(r) /\ ReadComplete(r) /\ proc[r].returncode # -SIGTERM)
            => decided[r] = "script_finished"

\* C38 (the start of a run): when Run starts a job the progress display
\* shows 0, not a value an earlier job left in the queue.
C38_Step ==
    (\E r \in Runs : runner[r] = "none" /\ runner'[r] # "none") => progress_bar' = 0
C38_DisplayStartsAtZero == [][C38_Step]_vars

====
